---------------------------- MODULE Spec2Model ----------------------------
(***************************************************************************)
(* Verification model of the pneuma_treatment pipeline.                    *)
(*                                                                         *)
(*   SpecTrans : 06lane_transitions.py  main, steps 2-4 (sort the          *)
(*               trajectory table, scan every vehicle's rows, count the    *)
(*               emitted transitions)                                      *)
(*   SpecClass : 07build_graph.py  main, step 3 (classification of the     *)
(*               destinations of every from-node)                          *)
(*   SpecAgg   : 09lane_node.py / 09lane_node_realworld.py  main, steps    *)
(*               2-4 (output time range, one record per node and output    *)
(*               time, normalisation of the table)                         *)
(*                                                                         *)
(* Every specification drives its own group of variables and leaves the    *)
(* other groups at their idle value.                                       *)
(***************************************************************************)
EXTENDS Integers, Sequences, FiniteSets, TLC

VARIABLES
    \* ---- 06lane_transitions.py
    traj_df,            \* the trajectory table: a set of rows [id, frame, FID]
    sorted_df,          \* the table after sort_values(["id", "frame"])
    t_pc,               \* position in main: "sort", "group", "scan", "done" (counted), "written", "error", "idle"
    group,              \* rows of the vehicle being scanned (groupby("id"))
    row_i,              \* index of the next row of group
    prev_lane_id,       \* None or Some(FID of the previous row)
    transitions,        \* transitions of the vehicle being scanned
    all_transitions,    \* transitions of all vehicles scanned so far
    transition_counter, \* Counter(all_transitions): set of [from, to, count]
    transition_df,      \* the rows of the table that is written, None before
    \* ---- 07build_graph.py
    transitions_df,     \* the transition table: a set of rows [from, to, count]
    c_pc,               \* position in main: "classify", "done", "idle"
    last_from,          \* the from_node_id of the group handled last (0: none yet)
    nodes_dict,         \* from_node_id -> [node_id, lane_id, direct, near]
    noise_count,        \* number of discarded rows
    \* ---- 09lane_node.py, 09lane_node_realworld.py
    variant,            \* which of the two scripts runs: "sim" or "realworld"
    window_cfg,         \* <<SPEED_WINDOW, FLOW_WINDOW, OCCUPANCY_WINDOW>>, in seconds
    agg_traj_df,        \* the trajectory table: a set of rows [id, frame, FID], frame in seconds
    output_times,       \* the output time steps, in the order they are generated
    a_pc,               \* position in main: "window", "aggregate", "done", "error", "idle"
    node_i,             \* index of the node of the outer loop
    time_i,             \* index of the output time of the inner loop
    results,            \* the records appended so far
    results_df,         \* the table written at the end
    \* ---- 05make_node.py, 06make_node.py
    lanes_gdf,          \* fid -> [join_fid, x, y]: group and centroid of a lane segment
    lane_traj_df,       \* the trajectory table: a set of rows [id, frame, lane_id_hint]
    lane_traj_dtype,    \* the dtype of the rows iterrows() hands out for that table
    l_pc,               \* position in main: "direct", "near", "validate", "crossing", "output", "done", "idle"
    direct_connections, \* fid -> sequence of fids
    near_connections,   \* fid -> sequence of fids
    crossing_connections, \* fid -> set of fids (the order follows a set's iteration)
    lane_graph_data,    \* graph_data["nodes"]: the written node list
    \* ---- 07build_full_graph_use_simple.py
    simplified_graph,   \* the simplified road network that is read
    full_graph,         \* the document that is built, None before
    f_pc,               \* position in main: "build", "done", "idle"
    \* ---- validate_graph.py
    graph,              \* the document json.load returns, None before
    errors,             \* set of error messages
    warnings,           \* set of warning messages
    v_pc,               \* position in validate_graph: "idle", "structure", "lanes", "nodes", "consistency", "report", "done"
    v_result,           \* None or Some(return value)
    \* ---- 08build_graph_from_transitions.py
    iqr_transitions_df, \* the transition table: a set of rows [from, to, count]
    iqr_pc,             \* position in main: "classify", "done", "idle"
    iqr_last_from,      \* the from_lane_id of the group handled last (0: none yet)
    iqr_graph_data,     \* graph_data["nodes"]: sequence of [lane_id, direct, near]
    iqr_noise_count,    \* number of discarded rows
    \* ---- the check of the required fields of 06lane_transitions.py, 07build_graph.py,
    \* ---- 08build_graph_from_transitions.py and 09lane_node.py
    s_script,           \* the script that runs
    s_columns,          \* the columns of the table it reads
    s_pc,               \* position in main: "read", "checked", "done", "error", "idle"
    s_raised,           \* None or Some([type, fields]): the exception that ended the run
    s_written,          \* the output files written so far
    \* ---- 10direction2node_mask.py and the readers of its table
    patrol_mask,        \* the direction mask: a set of rows [direction_id, start, end]
    node_mask,          \* the node mask written: a sequence of rows [node_id, start, end]
    m_pc,               \* "generate", "written", "idle"
    m_done,             \* the readers of the node mask that have run
    dynamic_visible,    \* 11merge_realworld_with_mask.py: the cells <<node_id, time>> left with their values
    time_mask,          \* 12nodemask2timemask.py: the rows [time, node_id, is_observed] written
    stats_observed,     \* 13test_data.py: the cells <<node_id, time>> with is_observed = 1
    \* ---- Steps 1-2 of 05make_node.py and 06make_node.py: the join_fid column
    lane_script,        \* "05make_node" or "06make_node"
    has_join_fid,       \* whether lanes_gdf has a column join_fid
    lane_raised         \* None or Some(exception) that ended the run

tvars == <<traj_df, sorted_df, t_pc, group, row_i, prev_lane_id, transitions,
           all_transitions, transition_counter, transition_df>>

cvars == <<transitions_df, c_pc, last_from, nodes_dict, noise_count>>

avars == <<variant, window_cfg, agg_traj_df, output_times, a_pc, node_i, time_i,
           results, results_df>>

lvars == <<lanes_gdf, lane_traj_df, lane_traj_dtype, l_pc, direct_connections, near_connections,
           crossing_connections, lane_graph_data>>

fvars == <<simplified_graph, full_graph, f_pc>>

vvars == <<graph, errors, warnings, v_pc, v_result>>

qvars == <<iqr_transitions_df, iqr_pc, iqr_last_from, iqr_graph_data, iqr_noise_count>>

svars == <<s_script, s_columns, s_pc, s_raised, s_written>>

mvars == <<patrol_mask, node_mask, m_pc, m_done, dynamic_visible, time_mask, stats_observed>>

jvars == <<lane_script, has_join_fid, lane_raised>>

vars == <<tvars, cvars, avars, lvars, fvars, vvars, qvars, svars, mvars, jvars>>

----------------------------------------------------------------------------
(* Python's None and a present value *)
None == <<>>
Some(x) == <<x>>

(* bounds of the checked inputs *)
MaxFrame == 3
MaxRows == 4

Min(S) == CHOOSE x \in S : \A y \in S : x <= y
Max(S) == CHOOSE x \in S : \A y \in S : x >= y

----------------------------------------------------------------------------
(*                      06lane_transitions.py                              *)

Vehicles == {1, 2}
LaneIds == {5, 7, 9}
TFrames == 1..MaxFrame

(* the trajectory of the specification's example: one vehicle visiting    *)
(* 5,5,5,7,7,9 at increasing frames                                        *)
ExampleVisit == <<5, 5, 5, 7, 7, 9>>
ExampleTraj == {[id |-> 1, frame |-> k, FID |-> ExampleVisit[k]] : k \in 1..Len(ExampleVisit)}

(* a trajectory table with at most one row per (vehicle, frame); 0 in the *)
(* choice function stands for "no row"                                     *)
TableOf(g) ==
    {[id |-> p[1], frame |-> p[2], FID |-> g[p]] : p \in {q \in DOMAIN g : g[q] # 0}}

TrajTables == {TableOf(g) : g \in [Vehicles \X TFrames -> LaneIds \cup {0}]}

(* traj_df.sort_values(["id", "frame"]) *)
RowBefore(a, b) == a.id < b.id \/ (a.id = b.id /\ a.frame < b.frame)

RECURSIVE SortRows(_)
SortRows(S) ==
    IF S = {} THEN <<>>
    ELSE LET first == CHOOSE r \in S : \A o \in S \ {r} : RowBefore(r, o)
         IN <<first>> \o SortRows(S \ {first})

(* the rows of one vehicle, in the order of the sorted table *)
GroupOf(df, vid) == SelectSeq(df, LAMBDA r : r.id = vid)

IdsOf(df) == {df[k].id : k \in 1..Len(df)}

(* the ids groupby("id") has not yet delivered: group holds the last one *)
Delivered == IF group = <<>> THEN {} ELSE {v \in IdsOf(sorted_df) : v <= group[1].id}
Remaining == IdsOf(sorted_df) \ Delivered

(* line 75 with the condition always true on a later row *)
ShouldEmitAlways(prev, curr) == prev # None

(* line 75: if prev_lane_id is not None and prev_lane_id != curr_lane_id *)
ShouldEmit(prev, curr) == prev # None /\ prev # Some(curr)

(* the number of times Counter(all_transitions) meets a key *)
CountOf(seq, pair) == Cardinality({k \in 1..Len(seq) : seq[k] = pair})
(* Counter keyed by the pair whatever its direction *)
CounterUnordered(seq) ==
    {[from |-> seq[k][1], to |-> seq[k][2],
      count |-> CountOf(seq, seq[k]) + CountOf(seq, <<seq[k][2], seq[k][1]>>)] : k \in 1..Len(seq)}

(* Counter(all_transitions), one entry per key *)
Counter(seq) ==
    {[from |-> seq[k][1], to |-> seq[k][2], count |-> CountOf(seq, seq[k])] : k \in 1..Len(seq)}

TransIdle ==
    /\ traj_df = {} /\ sorted_df = <<>> /\ t_pc = "idle" /\ group = <<>>
    /\ row_i = 0 /\ prev_lane_id = None /\ transitions = <<>>
    /\ all_transitions = <<>> /\ transition_counter = {} /\ transition_df = None

ClassIdle ==
    /\ transitions_df = {} /\ c_pc = "idle" /\ last_from = 0
    /\ nodes_dict = <<>> /\ noise_count = 0

AggIdle ==
    /\ variant = "sim" /\ window_cfg = <<0, 0, 0>> /\ agg_traj_df = {}
    /\ output_times = <<>> /\ a_pc = "idle" /\ node_i = 0 /\ time_i = 0
    /\ results = <<>> /\ results_df = <<>>

LaneIdle ==
    /\ lanes_gdf = <<>> /\ lane_traj_df = {} /\ lane_traj_dtype = "object" /\ l_pc = "idle"
    /\ direct_connections = <<>> /\ near_connections = <<>>
    /\ crossing_connections = <<>> /\ lane_graph_data = <<>>

FullIdle == simplified_graph = None /\ full_graph = None /\ f_pc = "idle"

ValidateIdle ==
    /\ graph = None /\ errors = {} /\ warnings = {} /\ v_pc = "idle" /\ v_result = None

IqrIdle ==
    /\ iqr_transitions_df = {} /\ iqr_pc = "idle" /\ iqr_last_from = 0
    /\ iqr_graph_data = <<>> /\ iqr_noise_count = 0

SchemaIdle ==
    /\ s_script = "" /\ s_columns = {} /\ s_pc = "idle" /\ s_raised = None /\ s_written = {}

MaskIdle ==
    /\ patrol_mask = {} /\ node_mask = <<>> /\ m_pc = "idle" /\ m_done = {}
    /\ dynamic_visible = {} /\ time_mask = {} /\ stats_observed = {}

(* the script and the shapefile of the runs of the lane model: 05make_node.py *)
(* on a shapefile that has the column join_fid                              *)
JoinIdle == lane_script = "05make_node" /\ has_join_fid = TRUE /\ lane_raised = None

TransInit ==
    /\ ClassIdle
    /\ AggIdle
    /\ LaneIdle /\ FullIdle /\ ValidateIdle /\ IqrIdle /\ SchemaIdle /\ MaskIdle /\ JoinIdle
    /\ traj_df \in TrajTables \cup {ExampleTraj}
    /\ sorted_df = <<>>
    /\ t_pc = "sort"
    /\ group = <<>>
    /\ row_i = 0
    /\ prev_lane_id = None
    /\ transitions = <<>>
    /\ all_transitions = <<>>
    /\ transition_counter = {}
    /\ transition_df = None

(* Step 2: sort by vehicle id and frame *)
SortTraj ==
    /\ t_pc = "sort"
    /\ sorted_df' = SortRows(traj_df)
    /\ t_pc' = "group"
    /\ UNCHANGED <<cvars, avars, lvars, fvars, vvars, qvars, svars, mvars, jvars>>
    /\ UNCHANGED <<traj_df, group, row_i, prev_lane_id, transitions,
                   all_transitions, transition_counter, transition_df>>

(* for vehicle_id, group in traj_df.groupby("id"): enter extract_lane_transitions *)
NextGroup ==
    /\ t_pc = "group"
    /\ Remaining # {}
    /\ group' = GroupOf(sorted_df, Min(Remaining))
    /\ transitions' = <<>>
    /\ prev_lane_id' = None
    /\ row_i' = 1
    /\ t_pc' = "scan"
    /\ UNCHANGED <<cvars, avars, lvars, fvars, vvars, qvars, svars, mvars, jvars>>
    /\ UNCHANGED <<traj_df, sorted_df, all_transitions, transition_counter, transition_df>>

(* one iteration of: for _, row in group.iterrows() *)
ScanRow ==
    /\ t_pc = "scan"
    /\ row_i <= Len(group)
    /\ LET curr_lane_id == group[row_i].FID IN
         /\ transitions' = IF ShouldEmit(prev_lane_id, curr_lane_id)
                           THEN Append(transitions, <<prev_lane_id[1], curr_lane_id>>)
                           ELSE transitions
         /\ prev_lane_id' = Some(curr_lane_id)
    /\ row_i' = row_i + 1
    /\ UNCHANGED <<cvars, avars, lvars, fvars, vvars, qvars, svars, mvars, jvars>>
    /\ UNCHANGED <<traj_df, sorted_df, t_pc, group, all_transitions, transition_counter, transition_df>>

(* return transitions; all_transitions.extend(transitions) *)
EndGroup ==
    /\ t_pc = "scan"
    /\ row_i > Len(group)
    /\ all_transitions' = all_transitions \o transitions
    /\ t_pc' = "group"
    /\ UNCHANGED <<cvars, avars, lvars, fvars, vvars, qvars, svars, mvars, jvars>>
    /\ UNCHANGED <<traj_df, sorted_df, group, row_i, prev_lane_id, transitions,
                   transition_counter, transition_df>>

(* Step 4: transition_counter = Counter(all_transitions) *)
CountTransitions ==
    /\ t_pc = "group"
    /\ Remaining = {}
    /\ transition_counter' = Counter(all_transitions)
    /\ t_pc' = "done"
    /\ UNCHANGED <<cvars, avars, lvars, fvars, vvars, qvars, svars, mvars, jvars>>
    /\ UNCHANGED <<traj_df, sorted_df, group, row_i, prev_lane_id, transitions,
                   all_transitions, transition_df>>

(* lines 94-104: the rows are built in the order the counter holds its keys  *)
(* (first emission first) and sorted by count, descending; rows of equal     *)
(* count are kept in that order                                              *)
FirstIndex(seq, row) == Min({k \in 1..Len(seq) : seq[k] = <<row.from, row.to>>})
RowAbove(seq, a, b) ==
    a.count > b.count \/ (a.count = b.count /\ FirstIndex(seq, a) < FirstIndex(seq, b))
RECURSIVE SortByCount(_, _)
SortByCount(seq, S) ==
    IF S = {} THEN <<>>
    ELSE LET first == CHOOSE a \in S : \A b \in S \ {a} : RowAbove(seq, a, b)
         IN <<first>> \o SortByCount(seq, S \ {first})

(* Steps 4-5: transition_df is built, sorted and written *)
WriteTransitions ==
    /\ t_pc = "done"
    /\ transition_counter # {}
    /\ transition_df' = Some(SortByCount(all_transitions, transition_counter))
    /\ t_pc' = "written"
    /\ UNCHANGED <<cvars, avars, lvars, fvars, vvars, qvars, svars, mvars, jvars>>
    /\ UNCHANGED <<traj_df, sorted_df, group, row_i, prev_lane_id, transitions,
                   all_transitions, transition_counter>>

(* Step 4 with no transition: pd.DataFrame([]) has no column 'count', and    *)
(* sort_values raises KeyError before anything is written                    *)
WriteFailsNoTransition ==
    /\ t_pc = "done"
    /\ transition_counter = {}
    /\ t_pc' = "error"
    /\ UNCHANGED <<cvars, avars, lvars, fvars, vvars, qvars, svars, mvars, jvars>>
    /\ UNCHANGED <<traj_df, sorted_df, group, row_i, prev_lane_id, transitions,
                   all_transitions, transition_counter, transition_df>>

TransNext ==
    \/ SortTraj \/ NextGroup \/ ScanRow \/ EndGroup \/ CountTransitions
    \/ WriteTransitions \/ WriteFailsNoTransition

SpecTrans == TransInit /\ [][TransNext]_vars

----------------------------------------------------------------------------
(* what the claims say about the extraction, stated on the table itself    *)

FramesOfVehicle(v) == {r.frame : r \in {x \in traj_df : x.id = v}}
FidAt(v, f) == (CHOOSE r \in traj_df : r.id = v /\ r.frame = f).FID
(* the frame of the sample of v that follows its sample at f *)
HasNext(v, f) == \E g \in FramesOfVehicle(v) : g > f
NextFrame(v, f) == Min({g \in FramesOfVehicle(v) : g > f})
(* the frames of v whose sample differs from the following sample *)
ChangeFrames(v) ==
    {f \in FramesOfVehicle(v) : HasNext(v, f) /\ FidAt(v, f) # FidAt(v, NextFrame(v, f))}

RECURSIVE ChangesFrom(_, _)
ChangesFrom(v, F) ==
    IF F = {} THEN <<>>
    ELSE LET f == Min(F)
         IN <<(<<FidAt(v, f), FidAt(v, NextFrame(v, f))>>)>> \o ChangesFrom(v, F \ {f})

RECURSIVE ExpectedTransitions(_)
ExpectedTransitions(V) ==
    IF V = {} THEN <<>>
    ELSE LET v == Min(V) IN ChangesFrom(v, ChangeFrames(v)) \o ExpectedTransitions(V \ {v})

\* C1: when the scan is over, the emitted transitions are, vehicle by vehicle and
\* in timestamp order, exactly the pairs (previous id, current id) of consecutive
\* samples of the same vehicle whose ids differ; the example trajectory
\* 5,5,5,7,7,9 gives exactly (5,7),(7,9), a single-sample trajectory gives
\* nothing, and nothing is emitted across two vehicles.
C1_TransitionsExact ==
    t_pc = "done" =>
        /\ all_transitions = ExpectedTransitions(Vehicles)
        /\ (traj_df = ExampleTraj => all_transitions = <<(<<5, 7>>), (<<7, 9>>)>>)
        /\ ((\A v \in Vehicles : Cardinality(FramesOfVehicle(v)) <= 1) => all_transitions = <<>>)

\* C1 witness: both vehicles were scanned, the first vehicle changed segment once,
\* and its last sample lies on another segment than the second vehicle's first.
C1_Witness ==
    /\ t_pc = "done"
    /\ \A v \in Vehicles : FramesOfVehicle(v) # {}
    /\ FidAt(1, Max(FramesOfVehicle(1))) # FidAt(2, Min(FramesOfVehicle(2)))
    /\ Len(all_transitions) = 1
    /\ ChangeFrames(1) # {}

----------------------------------------------------------------------------
(*                          07build_graph.py                               *)

FromNodes == {5, 6}
ToNodes == {7, 8, 9}
Counts == {0, 3, 40, 100}

(* lanes_json["lanes"]: lane 1 holds the nodes 5, 6, 7 and lane 2 the node 8 *)
lanes_data == <<[lane_id |-> 1, nodes |-> <<5, 6, 7>>], [lane_id |-> 2, nodes |-> <<8>>]>>

(* build_node_to_lane_mapping and node_to_lane.get(node_id, None) *)
NodeToLane(node_id) ==
    LET owners == {k \in 1..Len(lanes_data) :
                     \E j \in 1..Len(lanes_data[k].nodes) : lanes_data[k].nodes[j] = node_id}
    IN IF owners = {} THEN None ELSE Some(lanes_data[Max(owners)].lane_id)

(* a transition table with at most one row per ordered pair; -1 in the    *)
(* choice function stands for "no row"                                     *)
TransTableOf(g) ==
    {[from |-> p[1], to |-> p[2], count |-> g[p]] : p \in {q \in DOMAIN g : g[q] # -1}}

TransTables == {TransTableOf(g) : g \in [FromNodes \X ToNodes -> Counts \cup {-1}]}

(* a vehicle that went from node 5 to node 6 and back, three times *)
LoopTable == {[from |-> 5, to |-> 6, count |-> 3], [from |-> 6, to |-> 5, count |-> 3]}

(* transitions_df.groupby('from_node_id') *)
FromIds == {r.from : r \in transitions_df}
(* the groups the loop has still to deliver, in ascending order of the key *)
PendingFrom == {f \in FromIds : f > last_from}
GroupRows(from_node_id) == {r \in transitions_df : r.from = from_node_id}

(* line 99 with >= in place of > *)
IsValidCountOrZero(count) == count >= 0

(* line 99: sorted_group['count'] > 0 *)
IsValidCount(count) == count > 0

ValidGroup(sorted_group) == {r \in sorted_group : IsValidCount(r.count)}

(* line 105: the count of the first row of the group sorted by count, descending *)
MaxCountOf(valid_group) == Max({r.count : r \in valid_group})

(* lines 112-120 with one row of the largest count alone taken as direct *)
DirectConnectionsOnlyOne(valid_group) ==
    {(CHOOSE r \in valid_group : r.count = MaxCountOf(valid_group)).to}

(* lines 112-120 *)
DirectConnections(valid_group) ==
    {r.to : r \in {x \in valid_group : x.count = MaxCountOf(valid_group)}}
NearConnections(valid_group) ==
    {r.to : r \in {x \in valid_group : x.count # MaxCountOf(valid_group)}}

ClassInit ==
    /\ TransIdle
    /\ AggIdle
    /\ LaneIdle /\ FullIdle /\ ValidateIdle /\ IqrIdle /\ SchemaIdle /\ MaskIdle /\ JoinIdle
    /\ transitions_df \in TransTables \cup {LoopTable}
    /\ c_pc = "classify"
    /\ last_from = 0
    /\ nodes_dict = <<>>
    /\ noise_count = 0

(* one iteration of: for from_node_id, group in transitions_df.groupby(...) *)
ClassifyGroup ==
    /\ c_pc = "classify"
    /\ PendingFrom # {}
    /\ LET from_node_id == Min(PendingFrom)
           sorted_group == GroupRows(from_node_id)
           valid_group == ValidGroup(sorted_group)
       IN /\ noise_count' = noise_count + Cardinality(sorted_group) - Cardinality(valid_group)
          /\ nodes_dict' =
               IF valid_group = {} THEN nodes_dict
               ELSE (from_node_id :> [node_id |-> from_node_id,
                                      lane_id |-> NodeToLane(from_node_id),
                                      direct |-> DirectConnections(valid_group),
                                      near |-> NearConnections(valid_group)])
                    @@ nodes_dict
          /\ last_from' = from_node_id
    /\ UNCHANGED <<tvars, avars, lvars, fvars, vvars, qvars, svars, mvars, jvars>>
    /\ UNCHANGED <<transitions_df, c_pc>>

(* the loop is over: the node list is written *)
WriteGraph ==
    /\ c_pc = "classify"
    /\ PendingFrom = {}
    /\ c_pc' = "done"
    /\ UNCHANGED <<tvars, avars, lvars, fvars, vvars, qvars, svars, mvars, jvars>>
    /\ UNCHANGED <<transitions_df, last_from, nodes_dict, noise_count>>

ClassNext == ClassifyGroup \/ WriteGraph

SpecClass == ClassInit /\ [][ClassNext]_vars

(* the destination counts of the specification's example, for from-node 5 *)
ExampleCounts == {[from |-> 5, to |-> 7, count |-> 100], [from |-> 5, to |-> 8, count |-> 40],
                  [from |-> 5, to |-> 9, count |-> 3]}

DirectOf(f) == IF f \in DOMAIN nodes_dict THEN nodes_dict[f].direct ELSE {}
NearOf(f) == IF f \in DOMAIN nodes_dict THEN nodes_dict[f].near ELSE {}

\* C2 (as stated): with a noise threshold of 10 every destination whose count is
\* below 10 is discarded and counted as noise; for the counts 7:100, 8:40, 9:3
\* destination 7 is direct, 8 is near, 9 is noise and the noise count is 1.
C2_Threshold10 ==
    c_pc = "done" =>
        /\ \A r \in transitions_df : r.count < 10 => r.to \notin DirectOf(r.from) \cup NearOf(r.from)
        /\ noise_count = Cardinality({r \in transitions_df : r.count < 10})
        /\ (transitions_df = ExampleCounts =>
              DirectOf(5) = {7} /\ NearOf(5) = {8} /\ noise_count = 1)

\* C2 (amended): the threshold of the code is fixed, a row is discarded exactly
\* when its count is not positive; of the rows kept, the destinations with the
\* largest count are direct and all others near; the reported noise count is the
\* number of rows with a count <= 0.  For 7:100, 8:40, 9:3: 7 direct, 8 and 9
\* near, noise count 0.
C2_PositiveCountClassification ==
    c_pc = "done" =>
        /\ \A r \in transitions_df :
             /\ r.to \in DirectOf(r.from) <=>
                  (r.count >= 1 /\ \A o \in transitions_df : o.from = r.from => o.count <= r.count)
             /\ r.to \in NearOf(r.from) <=>
                  (r.count >= 1 /\ \E o \in transitions_df : o.from = r.from /\ o.count > r.count)
        /\ \A f \in FromNodes : DirectOf(f) \cup NearOf(f) \subseteq {r.to : r \in GroupRows(f)}
        /\ noise_count = Cardinality({r \in transitions_df : r.count <= 0})
        /\ (transitions_df = ExampleCounts =>
              DirectOf(5) = {7} /\ NearOf(5) = {8, 9} /\ noise_count = 0)

\* C2 witness: a from-node with a discarded row, a direct and a near destination.
C2_Witness ==
    /\ c_pc = "done"
    /\ \E r \in transitions_df : r.from = 5 /\ r.count = 0
    /\ DirectOf(5) # {} /\ NearOf(5) # {}
    /\ noise_count >= 1

----------------------------------------------------------------------------
(*             09lane_node.py and 09lane_node_realworld.py                 *)
(*                                                                         *)
(* Frames and window sizes are whole seconds.  A half window w/2 need not  *)
(* be whole, so every comparison with it is made on doubled values.        *)
(* Speeds are km/h; avg_speed and avg_occupancy are kept in hundredths,    *)
(* the unit round(x, 2) leaves them in.                                    *)

AFrames == 0..MaxFrame
NodeIds == {1, 2}

(* the columns of a row that depend on the vehicle only: v / speed_kmh,    *)
(* car_type, width                                                         *)
SpeedOf(id) == IF id = 1 THEN -30 ELSE 50
CarTypeOf(id) == IF id = 1 THEN "car" ELSE "heavy"
WidthOf(id) == IF id = 1 THEN 4 ELSE 10

(* the window sizes the two scripts set, and two more configurations *)
SimWindows == <<2, 10, 4>>
RealworldWindows == <<2, 2, 2>>
WindowConfigs == {RealworldWindows, <<1, 3, 2>>}

(* load_graph: one lane whose node 1 is followed by node 2 *)
node_dict ==
    (1 :> [lane_id |-> 1, segment_length |-> 10, direct |-> {2}, near |-> {}, crossing |-> {}])
    @@ (2 :> [lane_id |-> 1, segment_length |-> 10, direct |-> {}, near |-> {}, crossing |-> {}])

AggTableOf(g) ==
    {[id |-> p[1], frame |-> p[2], FID |-> g[p]] : p \in {q \in DOMAIN g : g[q] # 0}}

AggTables ==
    {t \in {AggTableOf(g) : g \in [Vehicles \X AFrames -> NodeIds \cup {0}]} :
       Cardinality(t) <= MaxRows}

(* the window [10,12) of the specification: vehicle 1 (|v| = 30) at 10 and *)
(* vehicle 2 (v = 50) at 11 in node 1; the last frame of the file is 12    *)
ExampleAggTable ==
    {[id |-> 1, frame |-> 10, FID |-> 1], [id |-> 2, frame |-> 11, FID |-> 1],
     [id |-> 2, frame |-> 12, FID |-> 2]}

(* a file of ten seconds for the window sizes of 09lane_node.py: the only  *)
(* output time is 5                                                        *)
LongAggTable ==
    {[id |-> 1, frame |-> 0, FID |-> 2], [id |-> 1, frame |-> 4, FID |-> 1],
     [id |-> 2, frame |-> 6, FID |-> 1], [id |-> 2, frame |-> 9, FID |-> 2],
     [id |-> 1, frame |-> 10, FID |-> 1]}

Abs(x) == IF x < 0 THEN -x ELSE x
Min2(a, b) == IF a <= b THEN a ELSE b

RECURSIVE SumFn(_, _)
SumFn(f, S) ==
    IF S = {} THEN 0
    ELSE LET x == CHOOSE y \in S : TRUE IN f[x] + SumFn(f, S \ {x})

(* round(num / den, 2) in hundredths: numpy rounds half to even *)
Round2(num, den) ==
    LET q == (100 * num) \div den
        r == (100 * num) % den
    IN IF 2 * r < den THEN q
       ELSE IF 2 * r > den THEN q + 1
       ELSE IF q % 2 = 0 THEN q ELSE q + 1

(* lines 53-54: MAX_WINDOW and MAX_HALF_WINDOW = int(MAX_WINDOW / 2) *)
MAX_WINDOW == Max({window_cfg[1], window_cfg[2], window_cfg[3]})
MAX_HALF_WINDOW == MAX_WINDOW \div 2
SPEED_WINDOW == window_cfg[1]
FLOW_WINDOW == window_cfg[2]
OCCUPANCY_WINDOW == window_cfg[3]

(* lines 299-302 with the upper end of the window closed *)
InWindowClosed(frame, output_time, window) ==
    2 * frame >= 2 * output_time - window /\ 2 * frame <= 2 * output_time + window

(* lines 299-302: frame >= output_time - window/2 and frame < output_time + window/2 *)
InWindow(frame, output_time, window) ==
    2 * frame >= 2 * output_time - window /\ 2 * frame < 2 * output_time + window

(* line 288: node_group = traj_df[traj_df['FID_int'] == node_id] *)
NodeGroup(node_id) == {r \in agg_traj_df : r.FID = node_id}

WindowData(node_id, output_time, window) ==
    {r \in NodeGroup(node_id) : InWindow(r.frame, output_time, window)}

(* lines 305-312 with the sign of the speeds kept *)
AvgSpeedSigned(data) ==
    IF data = {} THEN None
    ELSE LET total == SumFn([r \in data |-> SpeedOf(r.id)], data)
         IN IF total < 0 THEN Some(0 - Round2(0 - total, Cardinality(data)))
            ELSE Some(Round2(total, Cardinality(data)))

(* lines 305-312 with 0 for an empty window *)
AvgSpeedZeroWhenEmpty(data) ==
    IF data = {} THEN Some(0)
    ELSE Some(Round2(SumFn([r \in data |-> Abs(SpeedOf(r.id))], data), Cardinality(data)))

(* lines 305-312: None for an empty window, else round(v.abs().mean(), 2) *)
AvgSpeed(data) ==
    IF data = {} THEN None
    ELSE Some(Round2(SumFn([r \in data |-> Abs(SpeedOf(r.id))], data), Cardinality(data)))

(* line 323 counting the rows *)
UniqueVehiclesRows(data) == Cardinality(data)

(* line 323: flow_window_data['id'].nunique() if not empty else 0 *)
UniqueVehicles(data) == Cardinality({r.id : r \in data})

(* 09lane_node.py lines 40-45 and 95-110: VEHICLE_LENGTHS[car_type], 4.0 if unknown *)
VehicleLengthByType(car_type) ==
    CASE car_type = "car" -> 4
      [] car_type = "medium" -> 6
      [] car_type = "heavy" -> 10
      [] car_type = "motorcycle" -> 2
      [] OTHER -> 4

(* 09lane_node_realworld.py lines 89-103: the width, 4.0 if it is not positive *)
VehicleLengthByWidth(width) == IF width <= 0 THEN 4 ELSE width

(* get_next_node_for_vehicle: the node of the first later row of the       *)
(* vehicle that lies on another node, None if there is none                *)
get_next_node_for_vehicle(vehicle_id, current_node_id, current_frame) ==
    LET future_traj == {r \in agg_traj_df : r.id = vehicle_id /\ r.frame > current_frame
                                            /\ r.FID # current_node_id}
    IN IF future_traj = {} THEN None
       ELSE Some((CHOOSE r \in future_traj : \A o \in future_traj : r.frame <= o.frame).FID)

(* The occupied length of a node at one frame, in quarters of a metre.     *)
(* 09lane_node.py lines 198-203: every vehicle of the group, whole length  *)
TotalLengthSim(frame_group) ==
    4 * SumFn([r \in frame_group |-> VehicleLengthByType(CarTypeOf(r.id))], frame_group)

(* 09lane_node_realworld.py lines 196-238: 3/4 of every vehicle of the     *)
(* group, and 1/4 of every vehicle of the same frame on another node       *)
(* whose next node is this one, over a direct connection                   *)
TotalLengthRealworld(frame_group, current_node_id, current_frame) ==
    LET own == 3 * SumFn([r \in frame_group |-> VehicleLengthByWidth(WidthOf(r.id))], frame_group)
        spilling == {r \in agg_traj_df :
                       /\ r.frame = current_frame
                       /\ r.FID # current_node_id
                       /\ get_next_node_for_vehicle(r.id, r.FID, current_frame) = Some(current_node_id)
                       /\ r.FID \in DOMAIN node_dict
                       /\ current_node_id \in node_dict[r.FID].direct}
    IN own + SumFn([r \in spilling |-> VehicleLengthByWidth(WidthOf(r.id))], spilling)

TotalLength(frame_group, current_node_id, current_frame) ==
    IF variant = "sim" THEN TotalLengthSim(frame_group)
    ELSE TotalLengthRealworld(frame_group, current_node_id, current_frame)

(* the last line of calculate_occupancy_rate without the cap *)
OccupancyRateUncapped(total_length, segment_length) == total_length

(* calculate_occupancy_rate, last line: min(total_length / segment_length, 1.0), *)
(* as a numerator over 4 * segment_length                                  *)
OccupancyRate(total_length, segment_length) == Min2(total_length, 4 * segment_length)

(* lines 334-341: the mean of the occupancy of every frame of the window data *)
AvgOccupancy(node_id, occupancy_window_data) ==
    IF occupancy_window_data = {} THEN 0
    ELSE LET segment_length == node_dict[node_id].segment_length
             frames == {r.frame : r \in occupancy_window_data}
             frame_occupancies ==
                 [f \in frames |->
                    OccupancyRate(TotalLength({r \in occupancy_window_data : r.frame = f}, node_id, f),
                                  segment_length)]
         IN Round2(SumFn(frame_occupancies, frames), Cardinality(frames) * 4 * segment_length)

(* lines 296-350: the record of one node and one output time *)
CellRecord(node_id, output_time) ==
    [node_id |-> node_id,
     start_frame |-> output_time,
     avg_speed |-> AvgSpeed(WindowData(node_id, output_time, SPEED_WINDOW)),
     avg_occupancy |-> AvgOccupancy(node_id, WindowData(node_id, output_time, OCCUPANCY_WINDOW)),
     total_vehicles |-> UniqueVehicles(WindowData(node_id, output_time, FLOW_WINDOW))]

(* round(np.log(1 + x) / np.log(15), 2) and, in the realworld script, np.log(8), *)
(* in hundredths, for x = 0, 1, 2, 3                                       *)
LogNorm(x) ==
    IF variant = "sim" THEN <<0, 26, 41, 51>>[x + 1] ELSE <<0, 33, 53, 67>>[x + 1]

(* the nodes in the order the outer loop takes them *)
RECURSIVE Ascending(_)
Ascending(S) == IF S = {} THEN <<>> ELSE <<Min(S)>> \o Ascending(S \ {Min(S)})
(* line 281 taking the nodes from the rows of the trajectory table instead *)
observed_node_ids == Ascending({n \in DOMAIN node_dict : \E r \in agg_traj_df : r.FID = n})

(* line 281: all_node_ids = set(node_dict.keys()) *)
all_node_ids == Ascending(DOMAIN node_dict)

(* lines 262-266: output_start, output_start + 1, ... while <= output_end *)
RECURSIVE TimesFrom(_, _)
TimesFrom(current_time, output_end) ==
    IF current_time <= output_end
    THEN <<current_time>> \o TimesFrom(current_time + 1, output_end)
    ELSE <<>>

(* lines 254-266: from min_frame + MAX_HALF_WINDOW to max_frame - MAX_HALF_WINDOW; *)
(* the ceil and floor of the realworld script leave whole seconds as they are *)
OutputTimes ==
    IF agg_traj_df = {} THEN <<>>
    ELSE LET min_frame == Min({r.frame : r \in agg_traj_df})
             max_frame == Max({r.frame : r \in agg_traj_df})
         IN TimesFrom(min_frame + MAX_HALF_WINDOW, max_frame - MAX_HALF_WINDOW)

(* results_df.sort_values(['node_id', 'start_frame']) *)
RecordBefore(a, b) ==
    a.node_id < b.node_id \/ (a.node_id = b.node_id /\ a.start_frame < b.start_frame)

RECURSIVE SortRecords(_)
SortRecords(S) ==
    IF S = {} THEN <<>>
    ELSE LET first == CHOOSE r \in S : \A o \in S \ {r} : RecordBefore(r, o)
         IN <<first>> \o SortRecords(S \ {first})

(* lines 359-368: sort, then total_vehicles becomes its scaled logarithm *)
Normalised(recs) ==
    LET sorted == SortRecords({recs[k] : k \in 1..Len(recs)})
    IN [k \in 1..Len(sorted) |->
          [sorted[k] EXCEPT !.total_vehicles = LogNorm(sorted[k].total_vehicles)]]

AggInit ==
    /\ TransIdle
    /\ ClassIdle
    /\ LaneIdle /\ FullIdle /\ ValidateIdle /\ IqrIdle /\ SchemaIdle /\ MaskIdle /\ JoinIdle
    /\ \/ /\ variant \in {"sim", "realworld"}
          /\ window_cfg \in WindowConfigs
          /\ agg_traj_df \in AggTables
       \/ /\ variant \in {"sim", "realworld"}
          /\ window_cfg = RealworldWindows
          /\ agg_traj_df = ExampleAggTable
       \/ /\ variant = "sim"
          /\ window_cfg = SimWindows
          /\ agg_traj_df = LongAggTable
    /\ output_times = <<>>
    /\ a_pc = "window"
    /\ node_i = 0
    /\ time_i = 0
    /\ results = <<>>
    /\ results_df = <<>>

(* Step 2: the output time steps *)
DetermineWindow ==
    /\ a_pc = "window"
    /\ output_times' = OutputTimes
    /\ node_i' = 1
    /\ time_i' = 1
    /\ a_pc' = "aggregate"
    /\ UNCHANGED <<tvars, cvars, lvars, fvars, vvars, qvars, svars, mvars, jvars>>
    /\ UNCHANGED <<variant, window_cfg, agg_traj_df, results, results_df>>

(* Step 3: one pass of the inner loop, for all_node_ids[node_i] and output_times[time_i] *)
ComputeCell ==
    /\ a_pc = "aggregate"
    /\ node_i <= Len(all_node_ids)
    /\ time_i <= Len(output_times)
    /\ results' = Append(results, CellRecord(all_node_ids[node_i], output_times[time_i]))
    /\ IF time_i < Len(output_times)
       THEN time_i' = time_i + 1 /\ node_i' = node_i
       ELSE time_i' = 1 /\ node_i' = node_i + 1
    /\ UNCHANGED <<tvars, cvars, lvars, fvars, vvars, qvars, svars, mvars, jvars>>
    /\ UNCHANGED <<variant, window_cfg, agg_traj_df, output_times, a_pc, results_df>>

LoopsOver == node_i > Len(all_node_ids) \/ output_times = <<>>

(* Step 4: the table is sorted, normalised and written *)
SaveResults ==
    /\ a_pc = "aggregate"
    /\ LoopsOver
    /\ results # <<>>
    /\ results_df' = Normalised(results)
    /\ a_pc' = "done"
    /\ UNCHANGED <<tvars, cvars, lvars, fvars, vvars, qvars, svars, mvars, jvars>>
    /\ UNCHANGED <<variant, window_cfg, agg_traj_df, output_times, node_i, time_i, results>>

(* Step 4 with no record: pd.DataFrame([]) has no column 'node_id', and    *)
(* sort_values raises KeyError                                             *)
SaveFailsNoRecord ==
    /\ a_pc = "aggregate"
    /\ LoopsOver
    /\ results = <<>>
    /\ a_pc' = "error"
    /\ UNCHANGED <<tvars, cvars, lvars, fvars, vvars, qvars, svars, mvars, jvars>>
    /\ UNCHANGED <<variant, window_cfg, agg_traj_df, output_times, node_i, time_i, results,
                   results_df>>

AggNext == DetermineWindow \/ ComputeCell \/ SaveResults \/ SaveFailsNoRecord

SpecAgg == AggInit /\ [][AggNext]_vars

----------------------------------------------------------------------------
(* what the claims say about the records, stated on the trajectory table   *)

Records == {results[k] : k \in 1..Len(results)}

(* the rows of a node whose frame f satisfies t - w/2 <= f < t + w/2 *)
RowsIn(n, t, w) == {r \in agg_traj_df : r.FID = n /\ (2 * r.frame - 2 * t) \in (0 - w)..(w - 1)}

AbsSpeedSum(D) == SumFn([r \in D |-> IF SpeedOf(r.id) < 0 THEN 0 - SpeedOf(r.id) ELSE SpeedOf(r.id)], D)

(* x hundredths is num/den rounded to two decimals *)
IsRounded(x, num, den) == 2 * Abs(x * den - 100 * num) <= den

\* C3: every metric of a record is computed from the rows of its node inside the
\* half-open window of that metric's own size: avg_speed is present exactly when
\* a row lies in [t - w_speed/2, t + w_speed/2), total_vehicles is positive exactly
\* when a row lies in the flow window and avg_occupancy is positive exactly when
\* a row lies in the occupancy window; a row at t - w/2 counts, a row at t + w/2
\* does not.
C3_HalfOpenWindows ==
    \A rec \in Records :
        /\ rec.avg_speed # None <=> RowsIn(rec.node_id, rec.start_frame, window_cfg[1]) # {}
        /\ rec.total_vehicles >= 1 <=> RowsIn(rec.node_id, rec.start_frame, window_cfg[2]) # {}
        /\ rec.avg_occupancy > 0 <=> RowsIn(rec.node_id, rec.start_frame, window_cfg[3]) # {}

\* C3 witness: a record of node n at t with a row of vehicle 1 at exactly
\* t - w_speed/2 and a row of vehicle 2 at exactly t + w_speed/2 and no other row
\* of the node in between: the speed is that of vehicle 1 alone, and the flow
\* window, of another size, sees more vehicles than the speed window.
C3_Witness ==
    /\ a_pc = "done"
    /\ \E rec \in Records :
         /\ \E a, b \in NodeGroup(rec.node_id) :
              /\ a.id = 1 /\ 2 * a.frame = 2 * rec.start_frame - window_cfg[1]
              /\ b.id = 2 /\ 2 * b.frame = 2 * rec.start_frame + window_cfg[1]
         /\ rec.avg_speed = Some(3000)
    /\ \E rec \in Records :
         /\ window_cfg[2] # window_cfg[1]
         /\ rec.avg_speed = None
         /\ rec.total_vehicles = 2

\* C4 (as stated): every output time step t satisfies
\* min(timestamp) + max(w)/2 <= t <= max(timestamp) - max(w)/2.
C4_OutputRangeInsideData ==
    \A k \in 1..Len(output_times) :
        LET frames == {r.frame : r \in agg_traj_df}
            maxw == Max({window_cfg[1], window_cfg[2], window_cfg[3]})
        IN /\ 2 * Min(frames) + maxw <= 2 * output_times[k]
           /\ 2 * output_times[k] <= 2 * Max(frames) - maxw

\* C5 (as stated): avg_speed is the arithmetic mean of the absolute speeds of all
\* rows of the node inside the speed window.
C5_ExactMean ==
    \A rec \in Records :
        LET D == RowsIn(rec.node_id, rec.start_frame, window_cfg[1])
        IN D # {} => rec.avg_speed # None /\ rec.avg_speed[1] * Cardinality(D) = 100 * AbsSpeedSum(D)

\* C5 (amended): avg_speed is the arithmetic mean of the absolute speeds of all
\* rows of the node inside the speed window, every row counted once, rounded to
\* two decimals; for the window [10,12) with vehicle 1 (speed 30 in magnitude) at
\* 10 and vehicle 2 (speed 50) at 11 it is 40.00.
C5_RoundedMeanOfAbs ==
    /\ \A rec \in Records :
         LET D == RowsIn(rec.node_id, rec.start_frame, window_cfg[1])
         IN D # {} =>
              /\ rec.avg_speed # None
              /\ rec.avg_speed[1] >= 0
              /\ IsRounded(rec.avg_speed[1], AbsSpeedSum(D), Cardinality(D))
    /\ (agg_traj_df = ExampleAggTable /\ a_pc = "done") =>
         \E rec \in Records : rec.node_id = 1 /\ rec.start_frame = 11 /\ rec.avg_speed = Some(4000)

\* C5 witness: a speed window with two rows of vehicle 1 (speed -30) and one row
\* of vehicle 2 (speed 50): the mean 110/3 is written as 36.67.
C5_Witness ==
    /\ a_pc = "done"
    /\ \E rec \in Records :
         /\ Cardinality(RowsIn(rec.node_id, rec.start_frame, window_cfg[1])) = 3
         /\ rec.avg_speed = Some(3667)

(* the vehicles that have a row of node n inside the flow window of t *)
VehiclesSeen(n, t) == {v \in Vehicles : \E r \in RowsIn(n, t, window_cfg[2]) : r.id = v}

EmptyCell(n, t) == \A j \in 1..3 : RowsIn(n, t, window_cfg[j]) = {}

\* C7: a record whose windows hold no row of its node has avg_speed = null,
\* avg_occupancy = 0 and total_vehicles = 0, in the list of records and in the
\* table written at the end, and the run that produced it does not fail.
C7_EmptyWindowDefaults ==
    /\ \A rec \in Records :
         EmptyCell(rec.node_id, rec.start_frame) =>
           rec.avg_speed = None /\ rec.avg_occupancy = 0 /\ rec.total_vehicles = 0
    /\ \A k \in 1..Len(results_df) :
         EmptyCell(results_df[k].node_id, results_df[k].start_frame) =>
           /\ results_df[k].avg_speed = None
           /\ results_df[k].avg_occupancy = 0
           /\ results_df[k].total_vehicles = 0
    /\ (\E rec \in Records : EmptyCell(rec.node_id, rec.start_frame)) => a_pc # "error"

\* C7 witness: the table was written and holds a record of an empty cell next to
\* a record of a cell with data.
C7_Witness ==
    /\ a_pc = "done"
    /\ \E k \in 1..Len(results_df) : EmptyCell(results_df[k].node_id, results_df[k].start_frame)
    /\ \E k \in 1..Len(results_df) : results_df[k].avg_speed # None

\* C8: in every record 0 <= avg_occupancy <= 1.0.
C8_OccupancyBounded ==
    /\ \A rec \in Records : rec.avg_occupancy >= 0 /\ rec.avg_occupancy <= 100
    /\ \A k \in 1..Len(results_df) : results_df[k].avg_occupancy \in 0..100

\* C8 witness: at some frame of the occupancy window the vehicles of the node are
\* longer together than the node, and the record holds 1.00.
C8_Witness ==
    /\ a_pc = "done"
    /\ \E rec \in Records :
         /\ rec.avg_occupancy = 100
         /\ \E r \in RowsIn(rec.node_id, rec.start_frame, window_cfg[3]) :
              TotalLength({x \in NodeGroup(rec.node_id) : x.frame = r.frame}, rec.node_id, r.frame)
                > 4 * node_dict[rec.node_id].segment_length

(* the length of the vehicles of node n at frame f, in metres, by car type *)
LengthPresent(n, f) ==
    LET P == {r \in agg_traj_df : r.FID = n /\ r.frame = f}
    IN SumFn([r \in P |-> VehicleLengthByType(CarTypeOf(r.id))], P)

\* C9 (as stated): avg_occupancy is the average, over every raw timestamp inside
\* the occupancy window, of min(1.0, length of the vehicles present in the node /
\* segment_length); a timestamp at which no vehicle is in the node counts as 0.
C9_AverageOverAllTimestamps ==
    \A rec \in Records :
        variant = "sim" =>
          LET n == rec.node_id
              seg == node_dict[n].segment_length
              T == {r.frame : r \in {x \in agg_traj_df :
                                       (2 * x.frame - 2 * rec.start_frame)
                                          \in (0 - window_cfg[3])..(window_cfg[3] - 1)}}
              occ == [f \in T |-> Min2(LengthPresent(n, f), seg)]
          IN IF T = {} THEN rec.avg_occupancy = 0
             ELSE IsRounded(rec.avg_occupancy, SumFn(occ, T), Cardinality(T) * seg)

(* the next sample of vehicle v after frame f lies on a direct successor of node m *)
AboutToCross(v, f, m) ==
    LET later == {r \in agg_traj_df : r.id = v /\ r.frame > f}
    IN /\ later # {}
       /\ (CHOOSE r \in later : \A o \in later : r.frame <= o.frame).FID \in node_dict[m].direct

(* the length attributed to node n at frame f, in quarters of a metre: 3/4 of a *)
(* vehicle of n that is about to cross, the whole of every other vehicle of n,  *)
(* and 1/4 of a vehicle of another node that is about to cross into n           *)
AttributedLength(n, f) ==
    LET P == {r \in agg_traj_df : r.FID = n /\ r.frame = f}
        Q == {r \in agg_traj_df :
                /\ r.FID # n /\ r.frame = f /\ AboutToCross(r.id, f, r.FID)
                /\ (CHOOSE x \in {y \in agg_traj_df : y.id = r.id /\ y.frame > f} :
                      \A o \in {y \in agg_traj_df : y.id = r.id /\ y.frame > f} :
                         x.frame <= o.frame).FID = n}
    IN SumFn([r \in P |-> IF AboutToCross(r.id, f, n) THEN 3 * WidthOf(r.id) ELSE 4 * WidthOf(r.id)], P)
       + SumFn([r \in Q |-> WidthOf(r.id)], Q)

\* C10 (as stated): a vehicle's length is split 75%/25% between its node and the
\* direct successor only when its next sample lies on that successor; otherwise
\* its whole length counts for its own node and nothing for any other node.
C10_SplitOnlyWhenCrossing ==
    \A rec \in Records :
        variant = "realworld" =>
          LET n == rec.node_id
              seg == node_dict[n].segment_length
              F == {r.frame : r \in RowsIn(n, rec.start_frame, window_cfg[3])}
              occ == [f \in F |-> Min2(AttributedLength(n, f), 4 * seg)]
          IN F # {} => IsRounded(rec.avg_occupancy, SumFn(occ, F), Cardinality(F) * 4 * seg)

----------------------------------------------------------------------------
(*                  05make_node.py and 06make_node.py                      *)
(*                                                                         *)
(* The two scripts differ in how the shapefile is read; from the point     *)
(* where lanes_gdf is indexed by fid they are the same.  Centroids are     *)
(* whole metres and distances are compared by their squares.               *)

MaxLaneFrames == 4

LaneFids == {1, 2, 3}
(* the lane_id_hint values of the trajectory file: 4 is on no lane of the shapefile *)
HintIds == {1, 2, 3, 4}
JoinFids == {1, 2}
Centroids == {<<1, 0>>, <<2, 0>>, <<0, 6>>, <<5, 5>>}

NEAR_THRESHOLD == 6
CROSSING_MIN_DIST == 2

(* lane 1 lies at the origin on road 1 *)
LaneGeometries ==
    {[l \in LaneFids |-> IF l = 1 THEN [join_fid |-> 1, x |-> 0, y |-> 0]
                         ELSE [join_fid |-> j[l], x |-> c[l][1], y |-> c[l][2]]] :
        j \in [{2, 3} -> JoinFids], c \in [{2, 3} -> Centroids]}

(* one vehicle with at most one row per frame; 0 stands for "no row" *)
LaneTrajOf(g) ==
    {[id |-> 1, frame |-> f, lane_id_hint |-> g[f]] : f \in {k \in DOMAIN g : g[k] # 0}}
LaneTrajTables == {LaneTrajOf(g) : g \in [1..MaxLaneFrames -> HintIds \cup {0}]}

(* the join_fid of a lane whose field is empty: NaN in the numeric column *)
NoJoinFid == 0

(* lanes_gdf.groupby('join_fid'): the rows whose key is NaN are in no group *)
RoadIds == {lanes_gdf[l].join_fid : l \in DOMAIN lanes_gdf} \ {NoJoinFid}
GroupLanes(road_id) == {l \in DOMAIN lanes_gdf : lanes_gdf[l].join_fid = road_id}

(* lines 79-83: the centroid of a lane minus the mean of the centroids of  *)
(* its group, times the size of the group                                  *)
CentredX(G, l) == Cardinality(G) * lanes_gdf[l].x - SumFn([m \in G |-> lanes_gdf[m].x], G)
CentredY(G, l) == Cardinality(G) * lanes_gdf[l].y - SumFn([m \in G |-> lanes_gdf[m].y], G)

(* line 84: where np.arctan2(dy, dx) lies: 1 for (-pi, 0), 2 for 0, 3 for  *)
(* (0, pi), 4 for pi                                                       *)
AngleRange(dx, dy) ==
    IF dy < 0 THEN 1 ELSE IF dy > 0 THEN 3 ELSE IF dx >= 0 THEN 2 ELSE 4

(* arctan2 of lane a is smaller than arctan2 of lane b *)
AngleLess(G, a, b) ==
    LET ax == CentredX(G, a)   ay == CentredY(G, a)
        bx == CentredX(G, b)   by == CentredY(G, b)
    IN \/ AngleRange(ax, ay) < AngleRange(bx, by)
       \/ /\ AngleRange(ax, ay) = AngleRange(bx, by)
          /\ AngleRange(ax, ay) \in {1, 3}
          /\ ax * by - ay * bx > 0

(* lines 85-87: np.argsort(angles); lanes of equal angle come in an order  *)
(* the sort does not fix                                                   *)
SortedLanes(G) ==
    {s \in [1..Cardinality(G) -> G] :
        /\ \A i, j \in DOMAIN s : i # j => s[i] # s[j]
        /\ \A i, j \in DOMAIN s : i < j => ~AngleLess(G, s[j], s[i])}

(* lines 88-91: every lane but the last of the sorted group is linked to the next *)
SuccessorIn(sorted_lanes, l) ==
    LET i == CHOOSE k \in DOMAIN sorted_lanes : sorted_lanes[k] = l
    IN IF i < Len(sorted_lanes) THEN {sorted_lanes[i + 1]} ELSE {}

SquaredDistance(a, b) ==
    (lanes_gdf[a].x - lanes_gdf[b].x) * (lanes_gdf[a].x - lanes_gdf[b].x)
    + (lanes_gdf[a].y - lanes_gdf[b].y) * (lanes_gdf[a].y - lanes_gdf[b].y)

(* lines 108-118 without the test of join_fid *)
IsNearCandidateAnyRoad(lid, neighbor_id) ==
    /\ neighbor_id # lid
    /\ SquaredDistance(lid, neighbor_id) <= NEAR_THRESHOLD * NEAR_THRESHOLD

(* lines 108-118: another lane within NEAR_THRESHOLD whose join_fid differs; *)
(* NaN == NaN is false, so a lane without join_fid is on the road of no lane *)
IsNearCandidate(lid, neighbor_id) ==
    /\ neighbor_id # lid
    /\ SquaredDistance(lid, neighbor_id) <= NEAR_THRESHOLD * NEAR_THRESHOLD
    /\ \/ lanes_gdf[lid].join_fid # lanes_gdf[neighbor_id].join_fid
       \/ lanes_gdf[lid].join_fid = NoJoinFid

(* lines 137-148 and 179-188: the pairs (prev, curr) of consecutive rows   *)
(* of a vehicle, in the order of (id, frame), whose lane_id_hint differs;  *)
(* line 175 turns the column into text before the rows are read at lines   *)
(* 181-186, so that Step 4 compares the integers as they are written       *)
LaneChanges ==
    LET df == SortRows(lane_traj_df) IN
    UNION {LET grp == GroupOf(df, vid) IN
           {<<grp[k].lane_id_hint, grp[k + 1].lane_id_hint>> :
               k \in {i \in 1..(Len(grp) - 1) : grp[i].lane_id_hint # grp[i + 1].lane_id_hint}} :
           vid \in IdsOf(df)}

(* The rows of group.iterrows() at lines 140-145.  lane_id_hint is read as  *)
(* an integer column.  A file with a text column (a vehicle type, say)      *)
(* gives rows of dtype object, which keep the integer; a file whose columns *)
(* are all numbers (id, frame, lon, lat, lane_id_hint) gives rows of dtype  *)
(* float64, in which the integer has become a float.                        *)
RowDtypes == {"object", "float64"}

(* str() of an id: the digits, followed by ".0" when the id is a float *)
StrOfId(n, is_float) == [digits |-> n, point_zero |-> is_float]

(* line 141: curr = str(row["lane_id_hint"]) *)
StrOfHint(lane_id_hint) == StrOfId(lane_id_hint, lane_traj_dtype = "float64")

(* lines 59 and 154: the index of lanes_gdf holds str(fid) of an integer fid *)
StrOfLane(lid) == StrOfId(lid, FALSE)

(* lines 137-148: valid_near_pairs *)
valid_near_pairs == {<<StrOfHint(p[1]), StrOfHint(p[2])>> : p \in LaneChanges}

(* line 154 accepting the pair in either direction *)
IsValidatedEitherWay(lid, nb) ==
    \/ <<StrOfLane(lid), StrOfLane(nb)>> \in valid_near_pairs
    \/ <<StrOfLane(nb), StrOfLane(lid)>> \in valid_near_pairs

(* line 154: (str(lid), str(nb)) in valid_near_pairs *)
IsValidated(lid, nb) == <<StrOfLane(lid), StrOfLane(nb)>> \in valid_near_pairs

(* lines 192-198: get_distance is infinite when a lane is not in lanes_gdf *)
IsTooClose(frm, to) ==
    /\ frm \in DOMAIN lanes_gdf
    /\ to \in DOMAIN lanes_gdf
    /\ SquaredDistance(frm, to) < CROSSING_MIN_DIST * CROSSING_MIN_DIST

ConnectionsOf(conn, lid) == IF lid \in DOMAIN conn THEN conn[lid] ELSE {}

(* lines 200-208 without the test at line 203 *)
IsCrossingAlways(frm, to) ==
    /\ <<frm, to>> \in LaneChanges
    /\ frm # to
    /\ ~IsTooClose(frm, to)

(* lines 200-208 *)
IsCrossing(frm, to) ==
    /\ <<frm, to>> \in LaneChanges
    /\ frm # to
    /\ to \notin ConnectionsOf(direct_connections, frm) \cup ConnectionsOf(near_connections, frm)
    /\ ~IsTooClose(frm, to)

LaneInit ==
    /\ TransIdle /\ ClassIdle /\ AggIdle /\ FullIdle /\ ValidateIdle /\ IqrIdle /\ SchemaIdle /\ MaskIdle /\ JoinIdle
    /\ lanes_gdf \in LaneGeometries
    /\ lane_traj_df \in LaneTrajTables
    /\ lane_traj_dtype \in RowDtypes
    /\ l_pc = "direct"
    /\ direct_connections = <<>>
    /\ near_connections = <<>>
    /\ crossing_connections = <<>>
    /\ lane_graph_data = <<>>

(* Step 2: the direct connections of every join_fid group *)
BuildDirect ==
    /\ l_pc = "direct"
    /\ has_join_fid
    /\ \E sorted_lanes \in [RoadIds -> UNION {SortedLanes(GroupLanes(r)) : r \in RoadIds}] :
         /\ \A r \in RoadIds : sorted_lanes[r] \in SortedLanes(GroupLanes(r))
         /\ direct_connections' =
              [l \in DOMAIN lanes_gdf |->
                 IF lanes_gdf[l].join_fid = NoJoinFid THEN {}
                 ELSE SuccessorIn(sorted_lanes[lanes_gdf[l].join_fid], l)]
    /\ l_pc' = "near"
    /\ UNCHANGED <<tvars, cvars, avars, fvars, vvars, qvars, svars, mvars, jvars>>
    /\ UNCHANGED <<lanes_gdf, lane_traj_df, lane_traj_dtype, near_connections, crossing_connections,
                   lane_graph_data>>

(* Step 3, first half: the near candidates of every lane *)
BuildNear ==
    /\ l_pc = "near"
    /\ near_connections' =
         [lid \in DOMAIN lanes_gdf |->
            {neighbor_id \in DOMAIN lanes_gdf : IsNearCandidate(lid, neighbor_id)}]
    /\ l_pc' = "validate"
    /\ UNCHANGED <<tvars, cvars, avars, fvars, vvars, qvars, svars, mvars, jvars>>
    /\ UNCHANGED <<lanes_gdf, lane_traj_df, lane_traj_dtype, direct_connections, crossing_connections,
                   lane_graph_data>>

(* Step 3, second half: near_connections = validated_near *)
ValidateNear ==
    /\ l_pc = "validate"
    /\ near_connections' =
         [lid \in DOMAIN lanes_gdf |-> {nb \in near_connections[lid] : IsValidated(lid, nb)}]
    /\ l_pc' = "crossing"
    /\ UNCHANGED <<tvars, cvars, avars, fvars, vvars, qvars, svars, mvars, jvars>>
    /\ UNCHANGED <<lanes_gdf, lane_traj_df, lane_traj_dtype, direct_connections, crossing_connections,
                   lane_graph_data>>

(* Step 4: the crossing connections, keyed by the from-lane of the transition *)
BuildCrossing ==
    /\ l_pc = "crossing"
    /\ crossing_connections' = [frm \in HintIds |-> {to \in HintIds : IsCrossing(frm, to)}]
    /\ l_pc' = "output"
    /\ UNCHANGED <<tvars, cvars, avars, fvars, vvars, qvars, svars, mvars, jvars>>
    /\ UNCHANGED <<lanes_gdf, lane_traj_df, lane_traj_dtype, direct_connections, near_connections,
                   lane_graph_data>>

(* Step 5: one node per lane of lanes_gdf, in the order of the index *)
WriteLaneGraph ==
    /\ l_pc = "output"
    /\ lane_graph_data' =
         [k \in 1..Len(Ascending(DOMAIN lanes_gdf)) |->
            LET lid == Ascending(DOMAIN lanes_gdf)[k]
            IN [lane_id |-> lid,
                direct |-> ConnectionsOf(direct_connections, lid),
                near |-> ConnectionsOf(near_connections, lid),
                crossing |-> ConnectionsOf(crossing_connections, lid)]]
    /\ l_pc' = "done"
    /\ UNCHANGED <<tvars, cvars, avars, fvars, vvars, qvars, svars, mvars, jvars>>
    /\ UNCHANGED <<lanes_gdf, lane_traj_df, lane_traj_dtype, direct_connections, near_connections,
                   crossing_connections>>

LaneNext == BuildDirect \/ BuildNear \/ ValidateNear \/ BuildCrossing \/ WriteLaneGraph

SpecLane == LaneInit /\ [][LaneNext]_vars

----------------------------------------------------------------------------
(*                 07build_full_graph_use_simple.py                        *)
(*                                                                         *)
(* Lengths are whole metres, ratios whole percents.  A lane id written     *)
(* with str() is kept apart from the integer it was made from.             *)

MaxLaneNodes == 3

(* str(n) of an integer, and int(s) of such a string *)
StrOf(n) == <<"str", n>>
IntOf(s) == s[2]

RangeOf(seq) == {seq[k] : k \in DOMAIN seq}

RECURSIVE SumSeq(_)
SumSeq(seq) == IF seq = <<>> THEN 0 ELSE seq[1] + SumSeq(Tail(seq))

(* the connections of the lanes of a simplified network: none, one lane    *)
(* feeding one, one lane feeding two, a chain, a connection to a lane that *)
(* is not declared, a lane fed by the lane listed before it and by the     *)
(* lane listed after it                                                    *)
Conn(to_lane, movement, ratio) ==
    [to_lane |-> to_lane, movement |-> movement, travel_time |-> 5, ratio |-> ratio]
ConnectionChoices ==
    {[l \in 0..2 |-> <<>>],
     [l \in 0..2 |-> IF l = 0 THEN <<Conn(2, "straight", 100)>> ELSE <<>>],
     [l \in 0..2 |-> IF l = 0 THEN <<Conn(1, "left", 50), Conn(2, "straight", 50)>> ELSE <<>>],
     [l \in 0..2 |-> IF l = 0 THEN <<Conn(1, "straight", 100)>>
                     ELSE IF l = 1 THEN <<Conn(2, "straight", 100)>> ELSE <<>>],
     [l \in 0..2 |-> IF l = 0 THEN <<Conn(7, "straight", 100)>> ELSE <<>>],
     [l \in 0..2 |-> IF l = 0 THEN <<Conn(1, "straight", 100)>>
                     ELSE IF l = 2 THEN <<Conn(1, "left", 100)>> ELSE <<>>]}

AdjacentChoices ==
    {<<>>, <<(<<0, 1>>)>>, <<(<<0, 1, 2>>)>>, <<(<<0, 1>>), (<<1, 2>>)>>, <<(<<0, 5>>)>>}

(* lane 0 holds the nodes 1..a, lane 1 the nodes 11..10+b, lane 2 the node  *)
(* 21; the length of lane 0 is 10 m for each node, 5 m less, or 10 m more;  *)
(* its stop line is not declared, its node a, or node 11 of lane 1          *)
SimplifiedGraphs ==
    {[lanes |->
        <<[lane_id |-> 0, min_node |-> 1, max_node |-> a, order |-> o[0],
           stopline_node |-> IF st = "last" THEN Some(a) ELSE IF st = "other" THEN Some(11) ELSE None,
           total_length |-> 10 * a + dl, segment_length |-> 10,
           connections |-> conn[0]],
          [lane_id |-> 1, min_node |-> 11, max_node |-> 10 + b, order |-> o[1],
           stopline_node |-> None, total_length |-> 10 * b, segment_length |-> 10,
           connections |-> conn[1]],
          [lane_id |-> 2, min_node |-> 21, max_node |-> 21, order |-> "asc",
           stopline_node |-> None, total_length |-> 10, segment_length |-> 10,
           connections |-> conn[2]]>>,
      adjacent_lanes |-> adj] :
        a \in 1..MaxLaneNodes, b \in 1..2, o \in [{0, 1} -> {"asc", "desc"}],
        dl \in {0, -5, 10}, st \in {"none", "last", "other"},
        conn \in ConnectionChoices, adj \in AdjacentChoices}

(* lines 28-38: range(min_node, max_node + 1) or range(max_node, min_node - 1, -1) *)
NodeList(lane) ==
    IF lane.order = "asc"
    THEN [k \in 1..(lane.max_node - lane.min_node + 1) |-> lane.min_node + k - 1]
    ELSE [k \in 1..(lane.max_node - lane.min_node + 1) |-> lane.max_node - k + 1]

(* a dict filled in the order of the list: the last entry of a key stays *)
LastIndex(seq, Test(_)) == Max({k \in DOMAIN seq : Test(seq[k])})

LaneIdsOf(lanes) == {lanes[k].lane_id : k \in DOMAIN lanes}
LaneOf(lanes, lane_id) == lanes[LastIndex(lanes, LAMBDA l : l.lane_id = lane_id)]

(* lines 26-38: lane_to_nodes *)
lane_to_nodes(lanes) == [lane_id \in LaneIdsOf(lanes) |-> NodeList(LaneOf(lanes, lane_id))]

(* lines 41-58: the downstream connections of a lane, and the upstream     *)
(* entries the connections of the lanes add to it, in the order of the     *)
(* lanes and of their connections.  Line 44 sets lane_connections[lane_id] *)
(* to two empty lists when the loop reaches the lane, so the entries that  *)
(* the lanes listed before it had added are lost: the upstream entries of  *)
(* a lane come from the lanes listed from its own position on              *)
Downstream(lanes, lane_id) == LaneOf(lanes, lane_id).connections

RECURSIVE UpstreamFrom(_, _, _)
UpstreamFrom(lanes, k, lane_id) ==
    IF k > Len(lanes) THEN <<>>
    ELSE LET hits == SelectSeq(lanes[k].connections, LAMBDA c : c.to_lane = lane_id)
         IN [i \in DOMAIN hits |-> [from_lane |-> lanes[k].lane_id,
                                     movement |-> hits[i].movement,
                                     travel_time |-> hits[i].travel_time,
                                     ratio |-> hits[i].ratio]]
            \o UpstreamFrom(lanes, k + 1, lane_id)
(* the upstream entries with no reset at line 44 *)
UpstreamOfAllLanes(lanes, lane_id) == UpstreamFrom(lanes, 1, lane_id)

Upstream(lanes, lane_id) ==
    UpstreamFrom(lanes, LastIndex(lanes, LAMBDA l : l.lane_id = lane_id), lane_id)

(* lines 77-122: lane_type and the connection fields a lane carries *)
LaneType(has_downstream, has_upstream) ==
    IF has_downstream /\ ~has_upstream THEN Some("upstream")
    ELSE IF has_upstream /\ ~has_downstream THEN Some("downstream")
    ELSE IF has_upstream /\ has_downstream THEN Some("intermediate")
    ELSE None

DownstreamConnections(conns) ==
    [i \in DOMAIN conns |-> [target_lane |-> StrOf(conns[i].to_lane),
                             movement |-> conns[i].movement,
                             travel_time |-> conns[i].travel_time,
                             split_ratio |-> conns[i].ratio]]

UpstreamSources(conns) ==
    [i \in DOMAIN conns |-> [source_lane |-> StrOf(conns[i].from_lane),
                             movement |-> conns[i].movement,
                             travel_time |-> conns[i].travel_time,
                             contribution_ratio |-> conns[i].ratio]]

(* lines 62-124: one lane of the full document; a field the code does not  *)
(* set is None                                                             *)
FullLane(lanes, lane) ==
    LET down == Downstream(lanes, lane.lane_id)
        up == Upstream(lanes, lane.lane_id)
    IN [lane_id |-> lane.lane_id,
        nodes |-> lane_to_nodes(lanes)[lane.lane_id],
        stopline_node |-> lane.stopline_node,
        total_length |-> lane.total_length,
        segment_length |-> lane.segment_length,
        lane_type |-> LaneType(down # <<>>, up # <<>>),
        downstream_connections |-> IF down # <<>> THEN Some(DownstreamConnections(down)) ELSE None,
        upstream_sources |-> IF up # <<>> THEN Some(UpstreamSources(up)) ELSE None]

(* lines 160-163: the neighbours of a lane are the other members of the    *)
(* last group that lists it; None if no group does                         *)
lane_neighbors(adjacent_lanes, lane_id) ==
    LET listing == {k \in DOMAIN adjacent_lanes : lane_id \in RangeOf(adjacent_lanes[k])}
    IN IF listing = {} THEN None
       ELSE Some(SelectSeq(adjacent_lanes[Max(listing)], LAMBDA l : l # lane_id))

(* lines 166-169: node_to_lane[node_id] = (lane_id, pos_idx), pos_idx from 0 *)
node_to_lane(lanes, node_id) ==
    LET owner == lanes[LastIndex(lanes, LAMBDA l : node_id \in RangeOf(NodeList(l)))]
        node_list == lane_to_nodes(lanes)[owner.lane_id]
    IN <<owner.lane_id, (CHOOSE k \in DOMAIN node_list : node_list[k] = node_id) - 1>>

AllNodeIds(lanes) == UNION {RangeOf(lane_to_nodes(lanes)[l]) : l \in LaneIdsOf(lanes)}

(* lines 205-207 linking the last node of a lane back to the first *)
DirectOfNodeWrapping(lane_nodes, pos_idx) ==
    IF pos_idx < Len(lane_nodes) - 1 THEN <<lane_nodes[pos_idx + 2]>>
    ELSE <<lane_nodes[1]>>

(* lines 205-207: the next node of the same lane *)
DirectOfNode(lane_nodes, pos_idx) ==
    IF pos_idx < Len(lane_nodes) - 1 THEN <<lane_nodes[pos_idx + 2]>> ELSE <<>>

(* lines 210-217: the node at the same position of every neighbour lane    *)
(* that is declared and long enough                                        *)
RECURSIVE NearOfNode(_, _, _)
NearOfNode(lanes, neighbors, pos_idx) ==
    IF neighbors = <<>> THEN <<>>
    ELSE (IF neighbors[1] \in LaneIdsOf(lanes)
             /\ pos_idx < Len(lane_to_nodes(lanes)[neighbors[1]])
          THEN <<lane_to_nodes(lanes)[neighbors[1]][pos_idx + 1]>>
          ELSE <<>>)
         \o NearOfNode(lanes, Tail(neighbors), pos_idx)

(* lines 194-199 without the exemption of the stop line *)
PositionInLaneAlways(stopline_node, node_id, pos_idx, segment_length) ==
    Some(pos_idx * segment_length)

(* lines 194-199: position_in_lane, None for the stop line of the lane *)
PositionInLane(stopline_node, node_id, pos_idx, segment_length) ==
    IF stopline_node # None /\ Some(node_id) = stopline_node
    THEN None
    ELSE Some(pos_idx * segment_length)

(* lines 188-228: one node of the full document *)
FullNode(simplified, node_id) ==
    LET lanes == simplified.lanes
        lane_id == node_to_lane(lanes, node_id)[1]
        pos_idx == node_to_lane(lanes, node_id)[2]
        lane == LaneOf(lanes, lane_id)
        neighbors == lane_neighbors(simplified.adjacent_lanes, lane_id)
    IN [node_id |-> node_id,
        lane_id |-> lane_id,
        position_in_lane |-> PositionInLane(lane.stopline_node, node_id, pos_idx,
                                            lane.segment_length),
        segment_length |-> lane.segment_length,
        node_connections |->
            [direct |-> DirectOfNode(lane_to_nodes(lanes)[lane_id], pos_idx),
             near |-> IF neighbors = None THEN <<>>
                      ELSE NearOfNode(lanes, neighbors[1], pos_idx)]]

(* build_full_nodes: the nodes in ascending order of node_id *)
build_full_nodes(simplified) ==
    LET sorted_ids == Ascending(AllNodeIds(simplified.lanes))
    IN [k \in DOMAIN sorted_ids |-> FullNode(simplified, sorted_ids[k])]

(* build_full_graph *)
build_full_graph(simplified) ==
    [keys |-> {"intersection", "signal_timing", "directions", "lanes", "nodes", "phase_conflicts"},
     lanes |-> [k \in DOMAIN simplified.lanes |-> FullLane(simplified.lanes, simplified.lanes[k])],
     nodes |-> build_full_nodes(simplified)]

FullInit ==
    /\ TransIdle /\ ClassIdle /\ AggIdle /\ LaneIdle /\ ValidateIdle /\ IqrIdle /\ SchemaIdle /\ MaskIdle /\ JoinIdle
    /\ simplified_graph \in {Some(g) : g \in SimplifiedGraphs}
    /\ full_graph = None
    /\ f_pc = "build"

(* main: the simplified network is read, the full document built and written *)
BuildFullGraph ==
    /\ f_pc = "build"
    /\ full_graph' = Some(build_full_graph(simplified_graph[1]))
    /\ f_pc' = "done"
    /\ UNCHANGED <<tvars, cvars, avars, lvars, vvars, qvars, svars, mvars, jvars>>
    /\ UNCHANGED simplified_graph

FullNext == BuildFullGraph

SpecFull == FullInit /\ [][FullNext]_vars

----------------------------------------------------------------------------
(*                          validate_graph.py                              *)

ConnTypes == {"direct", "near", "crossing"}

(* a message of the errors or warnings list *)
Message(kind, conn_type, id, target) ==
    [kind |-> kind, conn |-> conn_type, id |-> id, target |-> target]

(* documents that were edited after they were built: a target added to a   *)
(* connection list of the first node, a required key removed, the first    *)
(* node or the first lane listed twice                                     *)
WithTarget(doc, conn_type, target) ==
    LET node == doc.nodes[1]
        conns == node.node_connections
        list == IF conn_type \in DOMAIN conns THEN conns[conn_type] ELSE <<>>
    IN [doc EXCEPT !.nodes[1].node_connections =
            [c \in DOMAIN conns \cup {conn_type} |->
                IF c = conn_type THEN Append(list, target) ELSE conns[c]]]

UndeclaredNode == 99

EditedDocuments(doc) ==
    {WithTarget(doc, c, UndeclaredNode) : c \in ConnTypes}
    \cup {[doc EXCEPT !.keys = doc.keys \ {"signal_timing"}]}
    \cup {[doc EXCEPT !.nodes = <<doc.nodes[1]>> \o doc.nodes]}
    \cup {[doc EXCEPT !.lanes = <<doc.lanes[1]>> \o doc.lanes]}

(* 07build_graph.py lines 143-159: output_data; the targets of a list are   *)
(* written in ascending order here, the order plays no part in validation  *)
output_data ==
    [keys |-> {"lanes", "nodes"},
     lanes |-> lanes_data,
     nodes |-> [k \in DOMAIN Ascending(DOMAIN nodes_dict) |->
                  LET node == nodes_dict[Ascending(DOMAIN nodes_dict)[k]]
                  IN [node_id |-> node.node_id,
                      lane_id |-> node.lane_id,
                      position_in_lane |-> None,
                      segment_length |-> 10,
                      node_connections |-> [direct |-> Ascending(node.direct),
                                            near |-> Ascending(node.near)]]]]

(* the files the validator can be given *)
DocumentsOnDisk ==
    (IF f_pc = "done" THEN {full_graph[1]} \cup EditedDocuments(full_graph[1]) ELSE {})
    \cup (IF c_pc = "done" THEN {output_data} ELSE {})

(* line 26 *)
required_keys == {"intersection", "signal_timing", "directions", "lanes", "nodes"}

(* line 57: int(total_length / segment_length) *)
ExpectedNodes(lane) == lane.total_length \div lane.segment_length

AllLaneIds(lanes) == {lanes[k].lane_id : k \in DOMAIN lanes}
AllNodeIdsIn(nodes) == {nodes[k].node_id : k \in DOMAIN nodes}

(* lines 44-69: the errors and the warnings of the loop over the lanes *)
LaneErrors(lanes) ==
    {Message("duplicate_lane", "", lanes[k].lane_id, 0) :
        k \in {i \in DOMAIN lanes : \E j \in 1..(i - 1) : lanes[j].lane_id = lanes[i].lane_id}}
    \cup UNION {IF lanes[k].downstream_connections = None THEN {}
                ELSE {Message("missing_lane", "", lanes[k].lane_id, IntOf(conn.target_lane)) :
                         conn \in {c \in RangeOf(lanes[k].downstream_connections[1]) :
                                      IntOf(c.target_lane) \notin AllLaneIds(lanes)}} :
                k \in DOMAIN lanes}

LaneWarnings(lanes) ==
    {Message("node_count", "", lanes[k].lane_id, ExpectedNodes(lanes[k])) :
        k \in {i \in DOMAIN lanes : ExpectedNodes(lanes[i]) # Len(lanes[i].nodes)}}

(* line 91 with 'crossing' among the checked connection types *)
CheckedConnTypesAll == {"direct", "near", "crossing"}

(* line 91: for conn_type in ['direct', 'near'] *)
CheckedConnTypes == {"direct", "near"}

(* lines 81-97: the errors and the warnings of the loop over the nodes *)
NodeErrors(nodes) ==
    {Message("duplicate_node", "", nodes[k].node_id, 0) :
        k \in {i \in DOMAIN nodes : \E j \in 1..(i - 1) : nodes[j].node_id = nodes[i].node_id}}

MissingTargets(nodes, k) ==
    UNION {{Message("missing_node", c, nodes[k].node_id, t) :
               t \in {x \in RangeOf(nodes[k].node_connections[c]) : x \notin AllNodeIdsIn(nodes)}} :
           c \in CheckedConnTypes \cap DOMAIN nodes[k].node_connections}

(* lines 93-97 appending to errors *)
NodeWarningsNone(nodes) == {}

NodeWarnings(nodes) == UNION {MissingTargets(nodes, k) : k \in DOMAIN nodes}

(* lines 105-116: the connections of every lane that end in the lane target *)
RECURSIVE downstream_map(_, _, _)
downstream_map(lanes, k, target) ==
    IF k > Len(lanes) THEN <<>>
    ELSE (IF lanes[k].downstream_connections = None THEN <<>>
          ELSE LET hits == SelectSeq(lanes[k].downstream_connections[1],
                                     LAMBDA c : IntOf(c.target_lane) = target)
               IN [i \in DOMAIN hits |-> [source |-> lanes[k].lane_id,
                                           movement |-> hits[i].movement,
                                           ratio |-> hits[i].split_ratio]])
         \o downstream_map(lanes, k + 1, target)

(* lines 132-150: the first upstream source of the lane that matches the   *)
(* expected one by lane and movement                                       *)
MatchesOf(actual_sources, expected) ==
    {i \in DOMAIN actual_sources :
        /\ IntOf(actual_sources[i].source_lane) = expected.source
        /\ actual_sources[i].movement = expected.movement}

(* lines 119-150 *)
UpstreamWarnings(lanes, k) ==
    IF lanes[k].upstream_sources = None THEN {}
    ELSE LET lane_id == lanes[k].lane_id
             expected_sources == downstream_map(lanes, 1, lane_id)
             actual_sources == lanes[k].upstream_sources[1]
         IN (IF Len(expected_sources) # Len(actual_sources)
             THEN {Message("upstream_count", "", lane_id, Len(expected_sources))} ELSE {})
            \cup UNION {LET expected == expected_sources[e]
                            found == MatchesOf(actual_sources, expected)
                        IN IF found = {}
                           THEN {Message("upstream_missing", "", lane_id, expected.source)}
                           ELSE IF Abs(actual_sources[Min(found)].contribution_ratio
                                       - expected.ratio) > 1
                                THEN {Message("ratio_mismatch", "", lane_id, expected.source)}
                                ELSE {} :
                        e \in DOMAIN expected_sources}

(* lines 157-164: the split ratios of a lane sum to 1.0, within 0.01 *)
SplitWarnings(lanes, k) ==
    IF lanes[k].downstream_connections = None THEN {}
    ELSE LET conns == lanes[k].downstream_connections[1]
             total_ratio == SumSeq([i \in DOMAIN conns |-> conns[i].split_ratio])
         IN IF Abs(total_ratio - 100) > 1
            THEN {Message("split_ratio", "", lanes[k].lane_id, total_ratio)} ELSE {}

(* line 197 returning success whatever was found *)
ReturnValueAlways(errs) == TRUE

(* line 197: return len(errors) == 0 *)
ReturnValue(errs) == errs = {}

(* lines 15-16: the file is read *)
LoadGraph ==
    /\ v_pc = "idle"
    /\ \E doc \in DocumentsOnDisk : graph' = Some(doc)
    /\ v_pc' = "structure"
    /\ UNCHANGED <<tvars, cvars, avars, lvars, fvars, qvars, svars, mvars, jvars>>
    /\ UNCHANGED <<errors, warnings, v_result>>

(* lines 25-37: a missing required key ends the validation with False *)
CheckStructure ==
    /\ v_pc = "structure"
    /\ LET missing == required_keys \ graph[1].keys
       IN /\ errors' = {Message("missing_key", key, 0, 0) : key \in missing}
          /\ IF missing # {}
             THEN v_result' = Some(FALSE) /\ v_pc' = "done"
             ELSE v_result' = v_result /\ v_pc' = "lanes"
    /\ UNCHANGED <<tvars, cvars, avars, lvars, fvars, qvars, svars, mvars, jvars>>
    /\ UNCHANGED <<graph, warnings>>

(* lines 39-75 *)
CheckLanes ==
    /\ v_pc = "lanes"
    /\ errors' = errors \cup LaneErrors(graph[1].lanes)
    /\ warnings' = warnings \cup LaneWarnings(graph[1].lanes)
    /\ v_pc' = "nodes"
    /\ UNCHANGED <<tvars, cvars, avars, lvars, fvars, qvars, svars, mvars, jvars>>
    /\ UNCHANGED <<graph, v_result>>

(* lines 77-99 *)
CheckNodes ==
    /\ v_pc = "nodes"
    /\ errors' = errors \cup NodeErrors(graph[1].nodes)
    /\ warnings' = warnings \cup NodeWarnings(graph[1].nodes)
    /\ v_pc' = "consistency"
    /\ UNCHANGED <<tvars, cvars, avars, lvars, fvars, qvars, svars, mvars, jvars>>
    /\ UNCHANGED <<graph, v_result>>

(* lines 101-166 *)
CheckConsistency ==
    /\ v_pc = "consistency"
    /\ warnings' = warnings
         \cup UNION {UpstreamWarnings(graph[1].lanes, k) : k \in DOMAIN graph[1].lanes}
         \cup UNION {SplitWarnings(graph[1].lanes, k) : k \in DOMAIN graph[1].lanes}
    /\ v_pc' = "report"
    /\ UNCHANGED <<tvars, cvars, avars, lvars, fvars, qvars, svars, mvars, jvars>>
    /\ UNCHANGED <<graph, errors, v_result>>

(* lines 168-197 *)
Report ==
    /\ v_pc = "report"
    /\ v_result' = Some(ReturnValue(errors))
    /\ v_pc' = "done"
    /\ UNCHANGED <<tvars, cvars, avars, lvars, fvars, qvars, svars, mvars, jvars>>
    /\ UNCHANGED <<graph, errors, warnings>>

ValidateNext == LoadGraph \/ CheckStructure \/ CheckLanes \/ CheckNodes \/ CheckConsistency \/ Report

(* the validator run on a document of either assembler *)
ValidateInit == ClassInit \/ FullInit

SpecValidate == ValidateInit /\ [][ClassNext \/ FullNext \/ ValidateNext]_vars

----------------------------------------------------------------------------
(*                  08build_graph_from_transitions.py                      *)
(*                                                                         *)
(* Lane ids are written as integers; the groups come in ascending order.   *)
(* np.percentile interpolates linearly, so a quartile is a multiple of a   *)
(* quarter: thresholds are kept in quarters of a count.                    *)

IqrPairs == ({5} \X {7, 8, 9, 10}) \cup ({6} \X {7, 8})

(* a transition table with at most one row per ordered pair; -1 stands for "no row" *)
IqrTableOf(g) ==
    {[from |-> p[1], to |-> p[2], count |-> g[p]] : p \in {q \in DOMAIN g : g[q] # -1}}
IqrTables == {IqrTableOf(g) : g \in [IqrPairs -> Counts \cup {-1}]}

IqrFromIds == {r.from : r \in iqr_transitions_df}
IqrPendingFrom == {f \in IqrFromIds : f > iqr_last_from}
IqrGroupRows(from_lane_id) == {r \in iqr_transitions_df : r.from = from_lane_id}

(* the counts of a group in ascending order, one entry per row *)
RECURSIVE CountsAscending(_)
CountsAscending(rows) ==
    IF rows = {} THEN <<>>
    ELSE LET low == CHOOSE r \in rows : \A o \in rows : r.count <= o.count
         IN <<low.count>> \o CountsAscending(rows \ {low})

(* np.percentile(counts, 25), times 4: the value at position (n - 1) / 4   *)
(* of the ascending counts, interpolated between its two neighbours        *)
Q1Times4(rows) ==
    LET counts == CountsAscending(rows)
        below == (Len(counts) - 1) \div 4
        part == (Len(counts) - 1) % 4
    IN IF part = 0 THEN 4 * counts[below + 1]
       ELSE 4 * counts[below + 1] + part * (counts[below + 2] - counts[below + 1])

(* lines 69-80 with Q1 for a group of any size *)
IqrThresholdAlwaysQ1(rows) == Q1Times4(rows)

(* lines 69-80: iqr_threshold, times 4: 0 for one or two rows, else Q1 *)
IqrThreshold(rows) == IF Cardinality(rows) <= 2 THEN 0 ELSE Q1Times4(rows)

(* line 63: the count of the first row of the group sorted by count, descending *)
IqrMaxCount(rows) == Max({r.count : r \in rows})

(* lines 87-99 with only one of the rows of the largest count taken as direct *)
IqrDirectOne(rows) ==
    {(CHOOSE r \in rows : r.count = IqrMaxCount(rows)).to}

(* lines 87-99: the three branches of the loop over the rows of a group *)
IqrDirect(rows) == {r.to : r \in {x \in rows : x.count = IqrMaxCount(rows)}}
IqrNear(rows) ==
    {r.to : r \in {x \in rows : x.count # IqrMaxCount(rows)
                                 /\ 4 * x.count >= IqrThreshold(rows)}}

(* line 99 reached for every row that is not direct *)
IqrNoiseBelowMax(rows) == Cardinality({x \in rows : x.count # IqrMaxCount(rows)})

IqrNoise(rows) ==
    Cardinality({x \in rows : x.count # IqrMaxCount(rows)
                              /\ ~(4 * x.count >= IqrThreshold(rows))})

IqrInit ==
    /\ TransIdle /\ ClassIdle /\ AggIdle /\ LaneIdle /\ FullIdle /\ ValidateIdle /\ SchemaIdle /\ MaskIdle /\ JoinIdle
    /\ iqr_transitions_df \in IqrTables
    /\ iqr_pc = "classify"
    /\ iqr_last_from = 0
    /\ iqr_graph_data = <<>>
    /\ iqr_noise_count = 0

(* one iteration of: for from_lane_id, group in transitions_df.groupby('from_lane_id') *)
IqrClassifyGroup ==
    /\ iqr_pc = "classify"
    /\ IqrPendingFrom # {}
    /\ LET from_lane_id == Min(IqrPendingFrom)
           sorted_group == IqrGroupRows(from_lane_id)
       IN /\ iqr_noise_count' = iqr_noise_count + IqrNoise(sorted_group)
          /\ iqr_graph_data' = Append(iqr_graph_data,
                                      [lane_id |-> from_lane_id,
                                       direct |-> IqrDirect(sorted_group),
                                       near |-> IqrNear(sorted_group)])
          /\ iqr_last_from' = from_lane_id
    /\ UNCHANGED <<tvars, cvars, avars, lvars, fvars, vvars, svars, mvars, jvars>>
    /\ UNCHANGED <<iqr_transitions_df, iqr_pc>>

(* Step 3: the loop is over, the graph is written *)
IqrWriteGraph ==
    /\ iqr_pc = "classify"
    /\ IqrPendingFrom = {}
    /\ iqr_pc' = "done"
    /\ UNCHANGED <<tvars, cvars, avars, lvars, fvars, vvars, svars, mvars, jvars>>
    /\ UNCHANGED <<iqr_transitions_df, iqr_last_from, iqr_graph_data, iqr_noise_count>>

IqrNext == IqrClassifyGroup \/ IqrWriteGraph

SpecIqr == IqrInit /\ [][IqrNext]_vars

(* the two classifiers, each on its own table *)
SpecClassifiers == (ClassInit \/ IqrInit) /\ [][ClassNext \/ IqrNext]_vars

(* the four graph builders, each on its own input *)
SpecBuilders ==
    (LaneInit \/ ClassInit \/ IqrInit \/ FullInit)
    /\ [][LaneNext \/ ClassNext \/ IqrNext \/ FullNext]_vars

----------------------------------------------------------------------------
(* what the claims say about the graph documents                            *)

Disjoint3(direct, near, crossing) ==
    direct \cap near = {} /\ direct \cap crossing = {} /\ near \cap crossing = {}

\* C11: in the document of every graph builder (05make_node.py / 06make_node.py,
\* 07build_graph.py, 08build_graph_from_transitions.py,
\* 07build_full_graph_use_simple.py) no target id appears in two of the sets
\* direct, near and crossing of the same node.
C11_ConnectionSetsDisjoint ==
    /\ l_pc = "done" =>
         \A k \in DOMAIN lane_graph_data :
            Disjoint3(lane_graph_data[k].direct, lane_graph_data[k].near,
                      lane_graph_data[k].crossing)
    /\ c_pc = "done" =>
         \A f \in DOMAIN nodes_dict : Disjoint3(nodes_dict[f].direct, nodes_dict[f].near, {})
    /\ iqr_pc = "done" =>
         \A k \in DOMAIN iqr_graph_data :
            Disjoint3(iqr_graph_data[k].direct, iqr_graph_data[k].near, {})
    /\ f_pc = "done" =>
         \A k \in DOMAIN full_graph[1].nodes :
            Disjoint3(RangeOf(full_graph[1].nodes[k].node_connections.direct),
                      RangeOf(full_graph[1].nodes[k].node_connections.near), {})

\* C11 witness: the lane-level builder wrote a node whose direct, near and
\* crossing sets are all non-empty, the near target lying on a lane the vehicle
\* also left for a third lane.
C11_Witness ==
    /\ l_pc = "done"
    /\ \E k \in DOMAIN lane_graph_data :
          /\ lane_graph_data[k].direct # {}
          /\ lane_graph_data[k].near # {}
          /\ lane_graph_data[k].crossing # {}

(* ceil(a / b) for positive b *)
CeilDiv(a, b) == (a + b - 1) \div b

(* the validator has finished on the very document build_full_graph wrote *)
ValidatedBuiltDocument == v_pc = "done" /\ f_pc = "done" /\ graph = full_graph

\* C12 (as stated): every lane of a built graph document has ceil(L / S) nodes,
\* and the validator reports no node-count mismatch for a lane with ceil(L / S)
\* nodes.
C12_NodeCountIsCeil ==
    ValidatedBuiltDocument =>
        \A k \in DOMAIN graph[1].lanes :
            LET lane == graph[1].lanes[k] IN
            /\ Len(lane.nodes) = CeilDiv(lane.total_length, lane.segment_length)
            /\ \A w \in warnings : ~(w.kind = "node_count" /\ w.id = lane.lane_id)

(* a connection list of the document names a node the document does not declare *)
DanglingNodeTargets(doc) ==
    {<<k, c, t>> \in (DOMAIN doc.nodes) \X ConnTypes \X ({UndeclaredNode} \cup AllNodeIdsIn(doc.nodes)) :
        /\ c \in DOMAIN doc.nodes[k].node_connections
        /\ t \in RangeOf(doc.nodes[k].node_connections[c])
        /\ t \notin AllNodeIdsIn(doc.nodes)}

\* C13 (as stated): when a connection list (direct, near or crossing) of some
\* node of the validated document names a node_id the document does not
\* declare, the validator records an error and returns failure.
C13_DanglingNodeIsError ==
    (v_pc = "done" /\ graph # None /\ "nodes" \in graph[1].keys
        /\ DanglingNodeTargets(graph[1]) # {}) =>
        /\ errors # {}
        /\ v_result = Some(FALSE)

(* the document is what an assembler wrote, it has lanes and nodes, its    *)
(* ids are unique and every node and lane a connection names is declared   *)
CorrectlyBuilt(doc) ==
    /\ \/ (f_pc = "done" /\ Some(doc) = full_graph)
       \/ (c_pc = "done" /\ doc = output_data)
    /\ doc.lanes # <<>> /\ doc.nodes # <<>>
    /\ \A i, j \in DOMAIN doc.lanes : i # j => doc.lanes[i].lane_id # doc.lanes[j].lane_id
    /\ \A i, j \in DOMAIN doc.nodes : i # j => doc.nodes[i].node_id # doc.nodes[j].node_id
    /\ \A k \in DOMAIN doc.nodes :
          \A c \in DOMAIN doc.nodes[k].node_connections :
             RangeOf(doc.nodes[k].node_connections[c]) \subseteq AllNodeIdsIn(doc.nodes)
    /\ f_pc = "done" =>
          \A k \in DOMAIN simplified_graph[1].lanes :
             \A c \in RangeOf(simplified_graph[1].lanes[k].connections) :
                c.to_lane \in LaneIdsOf(simplified_graph[1].lanes)

\* C14 (as stated): for every correctly-built graph document (written by
\* 07build_graph.py or by build_full_graph, ids unique, no dangling reference)
\* the validator records no error and returns success.
C14_BuiltDocumentAccepted ==
    (v_pc = "done" /\ graph # None /\ CorrectlyBuilt(graph[1])) =>
        /\ errors = {}
        /\ v_result = Some(TRUE)

\* C15 (as stated): in the document the Graph Assembler writes (07build_graph.py
\* at node granularity, 05make_node.py / 06make_node.py at lane granularity)
\* every id of a connection list is the id of a declared node.
C15_NoDanglingReference ==
    /\ c_pc = "done" =>
         \A f \in DOMAIN nodes_dict :
            nodes_dict[f].direct \cup nodes_dict[f].near \subseteq DOMAIN nodes_dict
    /\ l_pc = "done" =>
         \A k \in DOMAIN lane_graph_data :
            lane_graph_data[k].direct \cup lane_graph_data[k].near
                \cup lane_graph_data[k].crossing
              \subseteq {lane_graph_data[j].lane_id : j \in DOMAIN lane_graph_data}

----------------------------------------------------------------------------
(* what the claims say about the two classifiers                            *)

(* row r has the largest count of its from-segment and shares it with       *)
(* another destination of that segment                                     *)
TiedAtMaximum(table, r) ==
    /\ \A o \in table : o.from = r.from => o.count <= r.count
    /\ \E o \in table : o.from = r.from /\ o.to # r.to /\ o.count = r.count

(* the direct and near sets a node of the distribution-based document has *)
IqrDirectOf(f) ==
    UNION {iqr_graph_data[k].direct : k \in {j \in DOMAIN iqr_graph_data : iqr_graph_data[j].lane_id = f}}
IqrNearOf(f) ==
    UNION {iqr_graph_data[k].near : k \in {j \in DOMAIN iqr_graph_data : iqr_graph_data[j].lane_id = f}}

\* C16 (as stated): in both classifiers, the destinations of a from-segment that
\* share the maximum count are all direct, none of them is near and none of them
\* is counted as noise.
C16_TiesAllDirect ==
    /\ c_pc = "done" =>
         /\ \A r \in transitions_df : TiedAtMaximum(transitions_df, r) =>
                r.to \in DirectOf(r.from) /\ r.to \notin NearOf(r.from)
         /\ noise_count <= Cardinality({r \in transitions_df : ~TiedAtMaximum(transitions_df, r)})
    /\ iqr_pc = "done" =>
         /\ \A r \in iqr_transitions_df : TiedAtMaximum(iqr_transitions_df, r) =>
                r.to \in IqrDirectOf(r.from) /\ r.to \notin IqrNearOf(r.from)
         /\ iqr_noise_count <= Cardinality({r \in iqr_transitions_df : ~TiedAtMaximum(iqr_transitions_df, r)})

\* C16 (amended): in the distribution-based classifier the destinations that
\* share the maximum count of a from-segment are all direct and none is near or
\* noise; in the count-threshold classifier the same holds when the shared
\* maximum is positive, and when it is not positive all destinations of the
\* segment are discarded as noise and the segment gets no node.
C16_TiesAtKeptMaximumAllDirect ==
    /\ c_pc = "done" =>
         /\ \A r \in transitions_df : TiedAtMaximum(transitions_df, r) =>
                IF r.count >= 1
                THEN r.to \in DirectOf(r.from) /\ r.to \notin NearOf(r.from)
                ELSE r.from \notin DOMAIN nodes_dict
         /\ noise_count <= Cardinality({r \in transitions_df :
                                ~(TiedAtMaximum(transitions_df, r) /\ r.count >= 1)})
    /\ iqr_pc = "done" =>
         /\ \A r \in iqr_transitions_df : TiedAtMaximum(iqr_transitions_df, r) =>
                r.to \in IqrDirectOf(r.from) /\ r.to \notin IqrNearOf(r.from)
         /\ iqr_noise_count <= Cardinality({r \in iqr_transitions_df : ~TiedAtMaximum(iqr_transitions_df, r)})

\* C16 witness: the count-threshold classifier has finished on a from-segment
\* with two destinations at the same positive maximum and a third one below it:
\* both are direct, the third is near.
C16_Witness ==
    /\ c_pc = "done"
    /\ \E r, o, n \in transitions_df :
         /\ r.from = o.from /\ n.from = r.from /\ r.to # o.to
         /\ r.count = o.count /\ r.count >= 1 /\ n.count >= 1 /\ n.count < r.count
         /\ TiedAtMaximum(transitions_df, r)
         /\ {r.to, o.to} \subseteq DirectOf(r.from)
         /\ n.to \in NearOf(r.from)

(* the rows of a table whose destination is in neither set of its from-segment *)
RowsInNeither(table, direct_of(_), near_of(_)) ==
    {r \in table : r.to \notin direct_of(r.from) \cup near_of(r.from)}

(* the number of entries the lists set_of(f) of the from-segments hold together *)
EntriesOf(froms, set_of(_)) ==
    Cardinality({p \in froms \X UNION {set_of(f) : f \in froms} : p[2] \in set_of(p[1])})

\* C17: in both classifiers the reported noise count is the number of rows of
\* the transition table whose destination is in neither the direct nor the near
\* set of its from-segment, and the number of direct entries plus the number of
\* near entries plus the noise count is the number of rows of the table.
C17_NoiseCountIsRowsInNeither ==
    /\ c_pc = "done" =>
         /\ noise_count = Cardinality(RowsInNeither(transitions_df, DirectOf, NearOf))
         /\ EntriesOf(FromIds, DirectOf) + EntriesOf(FromIds, NearOf) + noise_count
              = Cardinality(transitions_df)
    /\ iqr_pc = "done" =>
         /\ iqr_noise_count = Cardinality(RowsInNeither(iqr_transitions_df, IqrDirectOf, IqrNearOf))
         /\ EntriesOf(IqrFromIds, IqrDirectOf) + EntriesOf(IqrFromIds, IqrNearOf) + iqr_noise_count
              = Cardinality(iqr_transitions_df)

\* C17 witness: the distribution-based classifier has finished on a table with
\* two from-segments; one of them has a direct, a near and a discarded
\* destination, and the noise count is at least 1.
C17_Witness ==
    /\ iqr_pc = "done"
    /\ Cardinality(IqrFromIds) = 2
    /\ \E f \in IqrFromIds :
         /\ IqrDirectOf(f) # {} /\ IqrNearOf(f) # {}
         /\ \E r \in iqr_transitions_df : r.from = f /\ r.to \notin IqrDirectOf(f) \cup IqrNearOf(f)
    /\ iqr_noise_count >= 1

(* four times the lower quartile of the counts of a from-segment: with the  *)
(* n counts in ascending order, the value a quarter of the way from the     *)
(* first to the last, taken between the two counts next to that position    *)
LowerQuartileTimes4(rows) ==
    LET counts == CountsAscending(rows)
        n == Len(counts)
        k == ((n - 1) \div 4) + 1
        w == (n - 1) % 4
    IN IF k = n THEN 4 * counts[k]
       ELSE (4 - w) * counts[k] + w * counts[k + 1]

IsGroupMaximum(table, r) == \A o \in table : o.from = r.from => o.count <= r.count

\* C18 (as stated): in the distribution-based classifier, for a from-segment
\* with any number of destinations and Q1 the lower quartile of its counts, a
\* destination with the maximum count is direct, one with Q1 <= count < max is
\* near and one with count < Q1 is discarded.
C18_QuartileRuleAnyGroup ==
    iqr_pc = "done" =>
        \A r \in iqr_transitions_df :
            LET q1 == LowerQuartileTimes4(IqrGroupRows(r.from)) IN
            /\ IsGroupMaximum(iqr_transitions_df, r) => r.to \in IqrDirectOf(r.from)
            /\ (~IsGroupMaximum(iqr_transitions_df, r) /\ 4 * r.count >= q1) =>
                   r.to \in IqrNearOf(r.from) /\ r.to \notin IqrDirectOf(r.from)
            /\ 4 * r.count < q1 => r.to \notin IqrDirectOf(r.from) \cup IqrNearOf(r.from)

\* C18 (amended): the destinations with the maximum count are direct.  For a
\* from-segment with three or more destinations and Q1 the lower quartile of its
\* counts, a destination with Q1 <= count < max is near and one with count < Q1
\* is discarded.  For a from-segment with one or two destinations no quartile
\* is taken: the threshold is 0, a destination below the maximum (its count
\* being >= 0) is near and nothing is discarded.
C18_QuartileRuleFromThreeDestinations ==
    iqr_pc = "done" =>
        \A r \in iqr_transitions_df :
            LET rows == IqrGroupRows(r.from)
                q1 == LowerQuartileTimes4(rows)
                kept == IF Cardinality(rows) >= 3 THEN 4 * r.count >= q1 ELSE r.count >= 0
            IN
            /\ IsGroupMaximum(iqr_transitions_df, r) <=> r.to \in IqrDirectOf(r.from)
            /\ (~IsGroupMaximum(iqr_transitions_df, r) /\ kept) <=> r.to \in IqrNearOf(r.from)

\* C18 witness: a from-segment with four destinations of which one is direct,
\* one near and one discarded below Q1, and a from-segment with two
\* destinations whose smaller count lies below the quartile of the two and is
\* near all the same.
C18_Witness ==
    /\ iqr_pc = "done"
    /\ \E f \in IqrFromIds :
         /\ Cardinality(IqrGroupRows(f)) = 4
         /\ IqrDirectOf(f) # {} /\ IqrNearOf(f) # {}
         /\ \E r \in IqrGroupRows(f) :
              /\ 4 * r.count < LowerQuartileTimes4(IqrGroupRows(f))
              /\ r.to \notin IqrDirectOf(f) \cup IqrNearOf(f)
    /\ \E g \in IqrFromIds :
         /\ Cardinality(IqrGroupRows(g)) = 2
         /\ \E r \in IqrGroupRows(g) :
              /\ 4 * r.count < LowerQuartileTimes4(IqrGroupRows(g))
              /\ r.to \in IqrNearOf(g)

----------------------------------------------------------------------------
(* what the claims say about the transition table                           *)

(* the transitions the trajectories hold, vehicle by vehicle *)
Emitted == ExpectedTransitions(Vehicles)
TimesEmitted(from, to) == Cardinality({k \in DOMAIN Emitted : Emitted[k] = <<from, to>>})

\* C19: the transition table written has one row per distinct ordered pair
\* (from, to) that was emitted and no other row; the count of a row is the
\* number of times its ordered pair was emitted over all vehicles, (a, b) and
\* (b, a) being counted apart; every count is >= 1 and the counts sum to the
\* number of emitted transitions.
C19_TableCountsOrderedPairs ==
    t_pc = "written" =>
        LET table == transition_df[1] IN
        /\ \A i, j \in DOMAIN table :
              (table[i].from = table[j].from /\ table[i].to = table[j].to) => i = j
        /\ {<<table[k].from, table[k].to>> : k \in DOMAIN table} = RangeOf(Emitted)
        /\ \A k \in DOMAIN table :
              /\ table[k].count = TimesEmitted(table[k].from, table[k].to)
              /\ table[k].count >= 1
        /\ SumSeq([k \in DOMAIN table |-> table[k].count]) = Len(Emitted)
        /\ Len(all_transitions) = Len(Emitted)

\* C19 witness: the table is written, lane 5 to lane 7 was emitted twice (once
\* by each vehicle) and lane 7 to lane 5 once: two rows, with the counts 2 and 1.
C19_Witness ==
    /\ t_pc = "written"
    /\ \E i, j \in DOMAIN transition_df[1] :
         /\ transition_df[1][i] = [from |-> 5, to |-> 7, count |-> 2]
         /\ transition_df[1][j] = [from |-> 7, to |-> 5, count |-> 1]
    /\ \A v \in Vehicles : ChangeFrames(v) # {}

----------------------------------------------------------------------------
(* what the claims say about the validation of the near candidates          *)

(* lanes a and b of different roads whose centroids lie within 6 m *)
SpatialNearCandidate(a, b) ==
    /\ a # b
    /\ lanes_gdf[a].join_fid # lanes_gdf[b].join_fid
    /\ (lanes_gdf[a].x - lanes_gdf[b].x) * (lanes_gdf[a].x - lanes_gdf[b].x)
         + (lanes_gdf[a].y - lanes_gdf[b].y) * (lanes_gdf[a].y - lanes_gdf[b].y) <= 36

(* some vehicle is on lane a in one sample and on lane b in its next sample *)
ObservedTransition(a, b) ==
    \E r, n \in lane_traj_df :
        /\ r.id = n.id /\ r.frame < n.frame
        /\ \A o \in lane_traj_df : o.id = r.id => ~(r.frame < o.frame /\ o.frame < n.frame)
        /\ r.lane_id_hint = a /\ n.lane_id_hint = b

LaneNearOf(a) ==
    UNION {lane_graph_data[k].near : k \in {j \in DOMAIN lane_graph_data : lane_graph_data[j].lane_id = a}}

\* C20 (as stated): in the lane graph written, a spatial near candidate (a, b)
\* is a near edge of a exactly when a transition with the ordered pair (a, b)
\* was observed in the trajectories; an observed (b, a) alone does not keep it.
C20_NearKeptIffObserved ==
    l_pc = "done" =>
        \A a, b \in DOMAIN lanes_gdf :
            SpatialNearCandidate(a, b) => (b \in LaneNearOf(a) <=> ObservedTransition(a, b))

LaneDirectOf(a) ==
    UNION {lane_graph_data[k].direct : k \in {j \in DOMAIN lane_graph_data : lane_graph_data[j].lane_id = a}}
LaneCrossingOf(a) ==
    UNION {lane_graph_data[k].crossing : k \in {j \in DOMAIN lane_graph_data : lane_graph_data[j].lane_id = a}}

(* lanes a and b both have a centroid and the two lie at least 2 m apart *)
CentroidsFarEnough(a, b) ==
    /\ a \in DOMAIN lanes_gdf /\ b \in DOMAIN lanes_gdf
    /\ (lanes_gdf[a].x - lanes_gdf[b].x) * (lanes_gdf[a].x - lanes_gdf[b].x)
         + (lanes_gdf[a].y - lanes_gdf[b].y) * (lanes_gdf[a].y - lanes_gdf[b].y) >= 4

\* C21 (as stated): in the lane graph written, b is a crossing edge of lane a
\* exactly when the transition (a, b) was observed, b is neither a direct nor a
\* near edge of a, and the centroids of a and b lie at least the minimum
\* distance apart; an observed transition to a closer lane is never a crossing
\* edge.
C21_CrossingIffObservedAndFar ==
    l_pc = "done" =>
        \A a \in DOMAIN lanes_gdf : \A b \in HintIds \cup DOMAIN lanes_gdf :
            b \in LaneCrossingOf(a) <=>
                /\ ObservedTransition(a, b)
                /\ b \notin LaneDirectOf(a) \cup LaneNearOf(a)
                /\ CentroidsFarEnough(a, b)

----------------------------------------------------------------------------
(* what the claims say about the expansion of the lanes into nodes          *)

(* the node of the full document with the given id *)
FullNodeOf(node_id) ==
    LET doc == full_graph[1]
    IN doc.nodes[CHOOSE k \in DOMAIN doc.nodes : doc.nodes[k].node_id = node_id]

(* the node that follows node n on a lane of the simplified network: the    *)
(* next higher id on an ascending lane, the next lower on a descending one  *)
HasFollower(lane, n) == IF lane.order = "asc" THEN n < lane.max_node ELSE n > lane.min_node
Follower(lane, n) == IF lane.order = "asc" THEN n + 1 ELSE n - 1

\* C22: in the node list build_full_graph writes, every node of a lane but the
\* last of its ordered node list has exactly one direct edge, to the node that
\* follows it on the same lane; the last node has no direct edge, and no
\* direct edge points to the node before, on ascending and on descending lanes.
C22_DirectToNextNodeOfLane ==
    f_pc = "done" =>
        \A k \in DOMAIN simplified_graph[1].lanes :
            LET lane == simplified_graph[1].lanes[k] IN
            \A n \in lane.min_node..lane.max_node :
                /\ FullNodeOf(n).lane_id = lane.lane_id
                /\ FullNodeOf(n).node_connections.direct =
                      IF HasFollower(lane, n) THEN <<Follower(lane, n)>> ELSE <<>>

\* C22 witness: the document is written for a descending lane of three nodes
\* and an ascending lane of two: node 3 leads to 2, node 2 to 1, node 1
\* nowhere; node 11 leads to 12 and node 12 nowhere.
C22_Witness ==
    /\ f_pc = "done"
    /\ simplified_graph[1].lanes[1].order = "desc" /\ simplified_graph[1].lanes[1].max_node = 3
    /\ simplified_graph[1].lanes[2].order = "asc" /\ simplified_graph[1].lanes[2].max_node = 12
    /\ FullNodeOf(3).node_connections.direct = <<2>>
    /\ FullNodeOf(2).node_connections.direct = <<1>>
    /\ FullNodeOf(1).node_connections.direct = <<>>
    /\ FullNodeOf(11).node_connections.direct = <<12>>
    /\ FullNodeOf(12).node_connections.direct = <<>>

(* the number of nodes of a lane of the simplified network and its node at  *)
(* index i, counted from 0 along the order of the lane                      *)
NodeCountOf(lane) == lane.max_node - lane.min_node + 1
NodeAtIndex(lane, i) == IF lane.order = "asc" THEN lane.min_node + i ELSE lane.max_node - i
IndexOfNode(lane, n) == IF lane.order = "asc" THEN n - lane.min_node ELSE lane.max_node - n

(* some group of adjacent_lanes lists both lanes *)
DeclaredAdjacent(l, m) ==
    /\ l # m
    /\ \E g \in DOMAIN simplified_graph[1].adjacent_lanes :
          {l, m} \subseteq RangeOf(simplified_graph[1].adjacent_lanes[g])

\* C23 (as stated): the near edges of the node at index i of a lane are the
\* nodes at index i of the lanes declared adjacent to it that have such a node,
\* and no other node.
C23_NearIsSameIndexOfAdjacentLanes ==
    f_pc = "done" =>
        \A k \in DOMAIN simplified_graph[1].lanes :
            LET lane == simplified_graph[1].lanes[k] IN
            \A n \in lane.min_node..lane.max_node :
                RangeOf(FullNodeOf(n).node_connections.near) =
                    {NodeAtIndex(simplified_graph[1].lanes[j], IndexOfNode(lane, n)) :
                        j \in {m \in DOMAIN simplified_graph[1].lanes :
                                 /\ DeclaredAdjacent(lane.lane_id, simplified_graph[1].lanes[m].lane_id)
                                 /\ IndexOfNode(lane, n) < NodeCountOf(simplified_graph[1].lanes[m])}}

\* C29 (as stated): the near edges of the node list build_full_nodes writes are
\* symmetric, whatever the grouping of adjacent_lanes: when node a lists node b
\* as near, node b lists node a as near.
C29_NearIsSymmetric ==
    f_pc = "done" =>
        \A i, j \in DOMAIN full_graph[1].nodes :
            LET a == full_graph[1].nodes[i]
                b == full_graph[1].nodes[j]
            IN b.node_id \in RangeOf(a.node_connections.near) =>
                   a.node_id \in RangeOf(b.node_connections.near)

(* the lane of the simplified network that holds node n *)
LaneHolding(n) ==
    LET lanes == simplified_graph[1].lanes
    IN lanes[CHOOSE k \in DOMAIN lanes : lanes[k].min_node <= n /\ n <= lanes[k].max_node]

\* C24: a node of the expanded node list has no position_in_lane exactly when it
\* is the declared stopline_node of its own lane; every other node has
\* position_in_lane = its index in the lane times the segment_length of the lane.
C24_PositionNullIffStopline ==
    f_pc = "done" =>
        \A k \in DOMAIN full_graph[1].nodes :
            LET node == full_graph[1].nodes[k]
                lane == LaneHolding(node.node_id)
            IN /\ node.position_in_lane = None <=> lane.stopline_node = Some(node.node_id)
               /\ lane.stopline_node # Some(node.node_id) =>
                     node.position_in_lane =
                        Some(IndexOfNode(lane, node.node_id) * lane.segment_length)

\* C24 witness: lane 0 is descending with three nodes and declares node 3, its
\* first node, as stop line: node 3 has no position, node 2 lies at 10 m and
\* node 1 at 20 m.
C24_Witness ==
    /\ f_pc = "done"
    /\ LET lane == simplified_graph[1].lanes[1] IN
         /\ lane.order = "desc" /\ lane.max_node = 3 /\ lane.stopline_node = Some(3)
    /\ FullNodeOf(3).position_in_lane = None
    /\ FullNodeOf(2).position_in_lane = Some(10)
    /\ FullNodeOf(1).position_in_lane = Some(20)

----------------------------------------------------------------------------
(* what the claims say about the completeness of the aggregated table       *)

(* the records of the table written for node n and output time t *)
WrittenFor(n, t) ==
    {k \in DOMAIN results_df : results_df[k].node_id = n /\ results_df[k].start_frame = t}

\* C25: the aggregator writes exactly one record for every pair of a node of
\* the graph document and an output time step, and no other record, also for a
\* node without connections and for a node without any trajectory sample; the
\* records of a node without sample have no speed, occupancy 0 and flow 0, and
\* the run does not fail as long as there is an output time step.
C25_OneRecordPerNodeAndTime ==
    /\ a_pc = "error" => output_times = <<>>
    /\ a_pc = "done" =>
         /\ \A n \in DOMAIN node_dict : \A i \in DOMAIN output_times :
               Cardinality(WrittenFor(n, output_times[i])) = 1
         /\ Len(results_df) = Cardinality(DOMAIN node_dict) * Len(output_times)
         /\ \A k \in DOMAIN results_df :
               (\A r \in agg_traj_df : r.FID # results_df[k].node_id) =>
                   /\ results_df[k].avg_speed = None
                   /\ results_df[k].avg_occupancy = 0
                   /\ results_df[k].total_vehicles = 0

\* C25 witness: the table is written for two output time steps; node 2, which
\* has no connection at all, has no sample in the trajectories and still has
\* its two records, without speed; node 1 has a record with a speed.
C25_Witness ==
    /\ a_pc = "done"
    /\ Len(output_times) >= 2
    /\ \A r \in agg_traj_df : r.FID # 2
    /\ node_dict[2].direct \cup node_dict[2].near \cup node_dict[2].crossing = {}
    /\ Cardinality({k \in DOMAIN results_df :
                      results_df[k].node_id = 2 /\ results_df[k].avg_speed = None}) = Len(output_times)
    /\ \E k \in DOMAIN results_df : results_df[k].node_id = 1 /\ results_df[k].avg_speed # None

\* ------------------------------------------------------------------------
\* The check of the required fields: 06lane_transitions.py, 07build_graph.py,
\* 08build_graph_from_transitions.py and 09lane_node.py read a table, raise a
\* ValueError that lists the required fields the table lacks, and write
\* their output files only at the end of main.
\* ------------------------------------------------------------------------

Scripts == {"06lane_transitions", "07build_graph", "08build_graph_from_transitions", "09lane_node"}

TrajectoryColumns == {"id", "frame", "FID", "lane_id", "v"}

TransitionColumns == {"from_lane_id", "to_lane_id", "count"}

\* the columns a table handed to the script may have
InputColumns(script) ==
    IF script \in {"06lane_transitions", "09lane_node"} THEN TrajectoryColumns ELSE TransitionColumns

required_fields(script) ==
    CASE script = "06lane_transitions" -> <<"id", "frame", "FID", "lane_id">>
      [] script = "07build_graph" -> <<"from_lane_id", "to_lane_id", "count">>
      [] script = "08build_graph_from_transitions" -> <<"from_lane_id", "to_lane_id", "count">>
      [] script = "09lane_node" -> <<"id", "frame", "FID", "v">>

\* variant: only the first missing field is reported
missing_fields_first_only(script, columns) ==
    LET NotInTable(f) == f \notin columns
        all == SelectSeq(required_fields(script), NotInTable)
    IN  IF all = <<>> THEN <<>> ELSE <<all[1]>>

\* [f for f in required_fields if f not in df.columns]
missing_fields(script, columns) ==
    LET NotInTable(f) == f \notin columns
    IN  SelectSeq(required_fields(script), NotInTable)

\* the files main writes, in the order it writes them
output_files(script) ==
    CASE script = "06lane_transitions" -> <<"transition_csv", "lanes_json">>
      [] script = "07build_graph" -> <<"graph_json">>
      [] script = "08build_graph_from_transitions" -> <<"graph_json">>
      [] script = "09lane_node" -> <<"aggregated_csv">>

SchemaInit ==
    /\ s_script \in Scripts
    /\ s_columns \in SUBSET (TrajectoryColumns \cup TransitionColumns)
    /\ s_columns \subseteq InputColumns(s_script)
    /\ s_pc = "read"
    /\ s_raised = None
    /\ s_written = {}
    /\ TransIdle /\ ClassIdle /\ AggIdle /\ LaneIdle /\ FullIdle /\ ValidateIdle /\ IqrIdle /\ MaskIdle /\ JoinIdle

\* pd.read_csv, then the check of the required fields
CheckRequiredFields ==
    /\ s_pc = "read"
    /\ IF missing_fields(s_script, s_columns) # <<>>
       THEN /\ s_raised' = Some([type |-> "ValueError", fields |-> missing_fields(s_script, s_columns)])
            /\ s_pc' = "error"
       ELSE /\ s_raised' = None
            /\ s_pc' = "checked"
    /\ UNCHANGED <<s_script, s_columns, s_written>>
    /\ UNCHANGED <<tvars, cvars, avars, lvars, fvars, vvars, qvars, mvars, jvars>>

\* to_csv / json.dump at the end of main: the next output file is written
WriteOutput ==
    /\ s_pc = "checked"
    /\ LET files == output_files(s_script)
           k == Cardinality(s_written) + 1
       IN  /\ s_written' = s_written \cup {files[k]}
           /\ s_pc' = IF k = Len(files) THEN "done" ELSE "checked"
    /\ UNCHANGED <<s_script, s_columns, s_raised>>
    /\ UNCHANGED <<tvars, cvars, avars, lvars, fvars, vvars, qvars, mvars, jvars>>

SchemaNext == CheckRequiredFields \/ WriteOutput

SpecSchema == SchemaInit /\ [][SchemaNext]_vars

\* C26: when the table a script reads lacks a field the script requires, the
\* run ends with an error that names every missing required field, and no
\* output file (transition CSV, lanes JSON, graph JSON, aggregated CSV) has
\* been written at any point of the run.
C26_MissingFieldAbortsBeforeOutput ==
    \A i \in DOMAIN required_fields(s_script) :
        LET f == required_fields(s_script)[i]
        IN  (s_pc \notin {"idle", "read"} /\ f \notin s_columns) =>
                /\ s_pc = "error"
                /\ s_raised # None
                /\ s_raised[1].type = "ValueError"
                /\ \E j \in DOMAIN s_raised[1].fields : s_raised[1].fields[j] = f
                /\ s_written = {}

\* a trajectory table without lane_id and frame was read by 06lane_transitions.py
C26_Witness ==
    /\ s_script = "06lane_transitions"
    /\ s_columns = {"id", "FID", "v"}
    /\ s_pc = "error"
    /\ s_raised = Some([type |-> "ValueError", fields |-> <<"frame", "lane_id">>])
    /\ s_written = {}

\* ------------------------------------------------------------------------
\* Steps 1-2 of 05make_node.py and 06make_node.py on shapefiles whose lanes
\* may have no join_fid: the field of a lane is empty, or the shapefile has
\* no such column at all.
\* ------------------------------------------------------------------------

LaneScripts == {"05make_node", "06make_node"}

(* the shapefiles: with the column, every lane has a join_fid or none;    *)
(* without the column no lane has one                                      *)
JoinGeometries(has_column) ==
    {[l \in LaneFids |-> [join_fid |-> IF has_column THEN j[l] ELSE NoJoinFid,
                          x |-> IF l = 1 THEN 0 ELSE c[l][1],
                          y |-> IF l = 1 THEN 0 ELSE c[l][2]]] :
        j \in [LaneFids -> IF has_column THEN JoinFids \cup {NoJoinFid} ELSE {NoJoinFid}],
        c \in [{2, 3} -> Centroids]}

(* no trajectory, or one vehicle that goes from lane 1 to lane 2 *)
JoinTrajTables ==
    {{}, {[id |-> 1, frame |-> 1, lane_id_hint |-> 1], [id |-> 1, frame |-> 2, lane_id_hint |-> 2]}}

JoinInit ==
    /\ TransIdle /\ ClassIdle /\ AggIdle /\ FullIdle /\ ValidateIdle /\ IqrIdle /\ SchemaIdle /\ MaskIdle
    /\ lane_script \in LaneScripts
    /\ has_join_fid \in BOOLEAN
    /\ lane_raised = None
    /\ lanes_gdf \in JoinGeometries(has_join_fid)
    /\ lane_traj_df \in JoinTrajTables
    /\ lane_traj_dtype = "object"
    /\ l_pc = "load"
    /\ direct_connections = <<>>
    /\ near_connections = <<>>
    /\ crossing_connections = <<>>
    /\ lane_graph_data = <<>>

(* Step 1.  06make_node.py, lines 156-172: a shapefile without the column  *)
(* gets join_fid = fid, every lane a road of its own.  05make_node.py has  *)
(* no such step.                                                           *)
LoadLanes ==
    /\ l_pc = "load"
    /\ IF lane_script = "06make_node" /\ ~has_join_fid
       THEN /\ lanes_gdf' = [l \in DOMAIN lanes_gdf |-> [lanes_gdf[l] EXCEPT !.join_fid = l]]
            /\ has_join_fid' = TRUE
       ELSE UNCHANGED <<lanes_gdf, has_join_fid>>
    /\ l_pc' = "direct"
    /\ UNCHANGED <<lane_script, lane_raised>>
    /\ UNCHANGED <<lane_traj_df, lane_traj_dtype, direct_connections, near_connections,
                   crossing_connections, lane_graph_data>>
    /\ UNCHANGED <<tvars, cvars, avars, fvars, vvars, qvars, svars, mvars>>

(* Step 2 on a table without the column: lanes_gdf.groupby('join_fid') raises *)
GroupByFails ==
    /\ l_pc = "direct"
    /\ ~has_join_fid
    /\ lane_raised' = Some([type |-> "KeyError", key |-> "join_fid"])
    /\ l_pc' = "error"
    /\ UNCHANGED <<lane_script, has_join_fid>>
    /\ UNCHANGED <<lanes_gdf, lane_traj_df, lane_traj_dtype, direct_connections, near_connections,
                   crossing_connections, lane_graph_data>>
    /\ UNCHANGED <<tvars, cvars, avars, fvars, vvars, qvars, svars, mvars>>

JoinNext == LoadLanes \/ GroupByFails \/ LaneNext

SpecJoin == JoinInit /\ [][JoinNext]_vars

(* the lanes that share the road of lane l: the lanes of its join_fid, or  *)
(* the lane alone when it has none                                         *)
JoinGroupOf(l) ==
    IF lanes_gdf[l].join_fid = NoJoinFid THEN {l} ELSE GroupLanes(lanes_gdf[l].join_fid)

(* m comes right after l in the order of the angles of group G *)
IsAngularSuccessor(G, l, m) ==
    /\ m \in G \ {l}
    /\ ~AngleLess(G, m, l)
    /\ ~\E k \in G : AngleLess(G, l, k) /\ AngleLess(G, k, m)

(* the direct edges of lane l are those of the claim *)
DirectByAngle(l) ==
    LET G == JoinGroupOf(l) IN
    IF Cardinality(G) <= 1 THEN direct_connections[l] = {}
    ELSE /\ \A m \in direct_connections[l] :
              IsAngularSuccessor(G, l, m) /\ l \notin direct_connections[m]
         /\ Cardinality(direct_connections[l]) <= 1
         /\ (\E m \in G : AngleLess(G, l, m)) => direct_connections[l] # {}

\* C27: the run of 05make_node.py or 06make_node.py does not abort, and once
\* Step 2 is over every lane of a join_fid group of two or more lanes that
\* has a lane of larger angle is linked to the lane that follows it in the
\* order of the angles and to no other, with no reverse edge, while a lane
\* alone in its group and a lane without join_fid have no direct edge.
C27_DirectEdgesFollowAngularOrder ==
    /\ l_pc # "error"
    /\ l_pc \in {"near", "validate", "crossing", "output", "done"} =>
          \A l \in DOMAIN lanes_gdf : DirectByAngle(l)

\* the same for the runs that have a column join_fid after Step 1
C27_DirectEdgesWhenColumnExists ==
    (has_join_fid /\ l_pc \in {"near", "validate", "crossing", "output", "done"}) =>
          \A l \in DOMAIN lanes_gdf : DirectByAngle(l)

----------------------------------------------------------------------------
(* build_full_graph against validate_graph                                  *)

(* every connection of the simplified network ends in a declared lane *)
TargetsDeclared(simplified) ==
    \A k \in DOMAIN simplified.lanes :
       \A c \in RangeOf(simplified.lanes[k].connections) :
          c.to_lane \in LaneIdsOf(simplified.lanes)

(* the warnings of lines 119-150 of the validator *)
ConsistencyKinds == {"upstream_count", "upstream_missing", "ratio_mismatch"}

ConsistencyWarnings == {w \in warnings : w.kind \in ConsistencyKinds}

(* how many entries of seq are x *)
TimesIn(seq, x) == Cardinality({i \in DOMAIN seq : seq[i] = x})

(* the upstream_sources of lane k of the document, as (source, movement, ratio) *)
SourcesOf(lanes, k) ==
    IF lanes[k].upstream_sources = None THEN <<>>
    ELSE [i \in DOMAIN lanes[k].upstream_sources[1] |->
            [source |-> IntOf(lanes[k].upstream_sources[1][i].source_lane),
             movement |-> lanes[k].upstream_sources[1][i].movement,
             ratio |-> lanes[k].upstream_sources[1][i].contribution_ratio]]

(* the upstream_sources of lane k and the downstream_connections that end  *)
(* in lane k are the same entries, each as many times                      *)
OneToOne(lanes, k) ==
    LET expected == downstream_map(lanes, 1, lanes[k].lane_id)
        actual == SourcesOf(lanes, k)
    IN \A x \in RangeOf(expected) \cup RangeOf(actual) : TimesIn(expected, x) = TimesIn(actual, x)

(* every lane of the document has the upstream_sources of the claim *)
UpstreamMatchesDownstream ==
    (f_pc = "done" /\ TargetsDeclared(simplified_graph[1])) =>
        \A k \in DOMAIN full_graph[1].lanes : OneToOne(full_graph[1].lanes, k)

(* the validator has accepted the document without a warning of lines 119-150 *)
ValidatorFindsConsistent ==
    (/\ v_pc = "done"
     /\ f_pc = "done"
     /\ graph = full_graph
     /\ TargetsDeclared(simplified_graph[1])) =>
        /\ errors = {}
        /\ ConsistencyWarnings = {}
        /\ v_result = Some(TRUE)

\* C28: in the document build_full_graph makes of a simplified network whose
\* connections all end in declared lanes, the upstream_sources of every lane
\* correspond one to one (source lane, movement, ratio) to the
\* downstream_connections that end in the lane; and when the validator has
\* checked that document it has recorded no error and no warning about
\* upstream_sources that disagree with the downstream_connections, and it
\* returns success.
C28_FullGraphPassesValidation == UpstreamMatchesDownstream /\ ValidatorFindsConsistent

----------------------------------------------------------------------------
(* 10direction2node_mask.py writes the node mask (node_id, start, end);     *)
(* 11merge_realworld_with_mask.py, 12nodemask2timemask.py and               *)
(* 13test_data.py read it                                                   *)

MaxMaskFrame == 3

MaskDirections == {"east", "west"}

(* all_node_ids of the graph: the nodes 1 and 2 are on the lanes of the     *)
(* direction east, the nodes 2 and 3 on the lanes of the direction west     *)
MaskNodes == {1, 2, 3}

(* build_direction_to_nodes_mapping *)
direction_to_nodes(direction_id) == IF direction_id = "east" THEN {1, 2} ELSE {2, 3}

(* the rows a direction mask can hold: a direction seen from start to end *)
PatrolRows ==
    {r \in [direction_id : MaskDirections, start : 0..MaxMaskFrame, end : 0..MaxMaskFrame] :
        r.start <= r.end}

(* the direction masks: one row or two *)
PatrolMasks == {{a, b} : a \in PatrolRows, b \in PatrolRows}

(* the cells (node_id, start_frame) of the tables the readers filter *)
MaskCells == MaskNodes \X (0..(MaxMaskFrame + 1))

(* generate_node_mask, step 5: the frames range(start, end + 1) of every    *)
(* row of a direction, for every node of the direction                     *)
node_visibility(node_id) ==
    UNION {r.start..r.end : r \in {p \in patrol_mask : node_id \in direction_to_nodes(p.direction_id)}}

(* merge_time_intervals: one row for every maximal run of consecutive frames *)
IntervalsOf(node_id, frames) ==
    {[node_id |-> node_id, start |-> s, end |-> e] :
        s \in {f \in frames : f - 1 \notin frames},
        e \in {f \in frames : f + 1 \notin frames}}
    \cap {r \in [node_id : {node_id}, start : frames, end : frames] :
            /\ r.start <= r.end
            /\ \A f \in r.start..r.end : f \in frames}

MaskRowBefore(a, b) ==
    a.node_id < b.node_id \/ (a.node_id = b.node_id /\ a.start < b.start)

RECURSIVE MaskRowsInOrder(_)
MaskRowsInOrder(rows) ==
    IF rows = {} THEN <<>>
    ELSE LET first == CHOOSE r \in rows : \A o \in rows \ {r} : MaskRowBefore(r, o)
         IN <<first>> \o MaskRowsInOrder(rows \ {first})

(* merge_time_intervals(node_visibility): the rows by node and by start *)
merge_time_intervals ==
    MaskRowsInOrder(UNION {IntervalsOf(n, node_visibility(n)) : n \in MaskNodes})

(* 11merge_realworld_with_mask.py, load_visibility_mask *)
visibility_dict(node_id) ==
    {<<node_mask[k].start, node_mask[k].end>> :
        k \in {i \in DOMAIN node_mask : node_mask[i].node_id = node_id}}

(* 11merge_realworld_with_mask.py, is_visible: start <= time_frame < end *)
is_visible(node_id, time_frame) ==
    \E iv \in visibility_dict(node_id) : iv[1] <= time_frame /\ time_frame < iv[2]

(* 12nodemask2timemask.py: min_time, max_time and the cells marked 1 *)
min_time == Min({node_mask[k].start : k \in DOMAIN node_mask})
max_time == Max({node_mask[k].end : k \in DOMAIN node_mask})

visibility_map(t, node_id) ==
    IF \E k \in DOMAIN node_mask :
          /\ node_mask[k].node_id = node_id
          /\ t \in node_mask[k].start..(node_mask[k].end - 1)
    THEN 1 ELSE 0

(* 13test_data.py, is_in_visible_range: start <= start_frame <= end *)
is_in_visible_range(node_id, start_frame) ==
    IF \E k \in DOMAIN node_mask :
          /\ node_mask[k].node_id = node_id
          /\ node_mask[k].start <= start_frame
          /\ start_frame <= node_mask[k].end
    THEN 1 ELSE 0

MaskInit ==
    /\ TransIdle /\ ClassIdle /\ AggIdle /\ LaneIdle /\ FullIdle /\ ValidateIdle /\ IqrIdle
    /\ SchemaIdle /\ JoinIdle
    /\ patrol_mask \in PatrolMasks
    /\ node_mask = <<>>
    /\ m_pc = "generate"
    /\ m_done = {}
    /\ dynamic_visible = {}
    /\ time_mask = {}
    /\ stats_observed = {}

(* 10direction2node_mask.py, generate_node_mask *)
GenerateNodeMask ==
    /\ m_pc = "generate"
    /\ node_mask' = merge_time_intervals
    /\ m_pc' = "written"
    /\ UNCHANGED <<patrol_mask, m_done, dynamic_visible, time_mask, stats_observed>>
    /\ UNCHANGED <<tvars, cvars, avars, lvars, fvars, vvars, qvars, svars, jvars>>

(* 11merge_realworld_with_mask.py, main: the rows that keep their values *)
MergeRealworld ==
    /\ m_pc = "written"
    /\ "11merge_realworld_with_mask" \notin m_done
    /\ dynamic_visible' = {c \in MaskCells : is_visible(c[1], c[2])}
    /\ m_done' = m_done \cup {"11merge_realworld_with_mask"}
    /\ UNCHANGED <<patrol_mask, node_mask, m_pc, time_mask, stats_observed>>
    /\ UNCHANGED <<tvars, cvars, avars, lvars, fvars, vvars, qvars, svars, jvars>>

(* 12nodemask2timemask.py, convert_node_mask_to_time_mask *)
ConvertTimeMask ==
    /\ m_pc = "written"
    /\ "12nodemask2timemask" \notin m_done
    /\ time_mask' = {[time |-> t, node_id |-> n, is_observed |-> visibility_map(t, n)] :
                        t \in min_time..(max_time - 1), n \in MaskNodes}
    /\ m_done' = m_done \cup {"12nodemask2timemask"}
    /\ UNCHANGED <<patrol_mask, node_mask, m_pc, dynamic_visible, stats_observed>>
    /\ UNCHANGED <<tvars, cvars, avars, lvars, fvars, vvars, qvars, svars, jvars>>

(* 13test_data.py, generate_test_data: the rows with is_observed = 1 *)
FilterTestData ==
    /\ m_pc = "written"
    /\ "13test_data" \notin m_done
    /\ stats_observed' = {c \in MaskCells : is_in_visible_range(c[1], c[2]) = 1}
    /\ m_done' = m_done \cup {"13test_data"}
    /\ UNCHANGED <<patrol_mask, node_mask, m_pc, dynamic_visible, time_mask>>
    /\ UNCHANGED <<tvars, cvars, avars, lvars, fvars, vvars, qvars, svars, jvars>>

MaskNext == GenerateNodeMask \/ MergeRealworld \/ ConvertTimeMask \/ FilterTestData

SpecMask == MaskInit /\ [][MaskNext]_vars

(* the cell is one of the frames the producer covered and wrote as start..end *)
WrittenVisible(node_id, t) ==
    \E k \in DOMAIN node_mask :
       node_mask[k].node_id = node_id /\ t \in node_mask[k].start..node_mask[k].end

(* the answers of the three readers *)
MergeVisible(node_id, t) == <<node_id, t>> \in dynamic_visible
TimeMaskVisible(node_id, t) ==
    [time |-> t, node_id |-> node_id, is_observed |-> 1] \in time_mask
FilterVisible(node_id, t) == <<node_id, t>> \in stats_observed

AllReadersDone == m_done = {"11merge_realworld_with_mask", "12nodemask2timemask", "13test_data"}

\* C30: once the node mask is written and its three readers have run, every
\* cell (node, integer time) is visible for the producer (the time is one of
\* the frames start..end of a row of the node) exactly when it is visible for
\* is_visible of the realworld merge, for the time-step mask and for
\* is_in_visible_range of the test-data filter, the time t = end included.
C30_ProducerAndReadersAgree ==
    AllReadersDone =>
        \A c \in MaskCells :
           /\ MergeVisible(c[1], c[2]) <=> WrittenVisible(c[1], c[2])
           /\ TimeMaskVisible(c[1], c[2]) <=> WrittenVisible(c[1], c[2])
           /\ FilterVisible(c[1], c[2]) <=> WrittenVisible(c[1], c[2])

(* what does hold: the test-data filter reads the rows as the producer     *)
(* wrote them, and the two other readers agree with each other and with    *)
(* the producer on every time but the last one of a row                    *)
FilterAgreesWithProducer ==
    "13test_data" \in m_done =>
        \A c \in MaskCells : FilterVisible(c[1], c[2]) <=> WrittenVisible(c[1], c[2])

HalfOpenReadersAgree ==
    AllReadersDone =>
        \A c \in MaskCells :
           /\ MergeVisible(c[1], c[2]) <=> TimeMaskVisible(c[1], c[2])
           /\ MergeVisible(c[1], c[2]) <=>
                \E k \in DOMAIN node_mask :
                   /\ node_mask[k].node_id = c[1]
                   /\ c[2] \in node_mask[k].start..(node_mask[k].end - 1)

=============================================================================
